---- MODULE Spec2Model ----
(***************************************************************************)
(* Workspace store of the block editor (WorkspaceManager), together with   *)
(* the parts of BlockRegistry and LayoutEngine its mutations call, the     *)
(* DragManager, the SerializationService, the host bridges, the            *)
(* BlockRegistry and the EventBus.                                         *)
(*                                                                         *)
(* Instance ids 'block-N' are modelled by the number N.  JavaScript values *)
(* of parameters are modelled by strings: "NaN" stands for the number NaN  *)
(* and "null" for null; every other string stands for itself.  Arrays are  *)
(* 0-based in the source and 1-based here: blocks[i] is blocks[i + 1].     *)
(***************************************************************************)
EXTENDS Integers, Sequences, FiniteSets, TLC

VARIABLES columns, blockElements, nextInstanceId, issuedIds, last,
          currentDrag, ghostEl, dropIndicatorEl, dragBlockElements, dcall,
          localStorage, webBridge, vscodeState, vscodeBridge, hcall,
          blockRegistry, rcall, listeners, ecall

storeVars == <<columns, blockElements, nextInstanceId, issuedIds>>

dragVars == <<currentDrag, ghostEl, dropIndicatorEl, dragBlockElements>>

hostVars == <<localStorage, webBridge, vscodeState, vscodeBridge>>

vars == <<columns, blockElements, nextInstanceId, issuedIds, last,
          currentDrag, ghostEl, dropIndicatorEl, dragBlockElements, dcall,
          localStorage, webBridge, vscodeState, vscodeBridge, hcall,
          blockRegistry, rcall, listeners, ecall>>

(***************************************************************************)
(* Bounds of the model: the number of instance ids generated under Spec    *)
(* and under SpecStore.                                                    *)
(***************************************************************************)
MaxIds == 3

MaxStoreIds == 2

MaxDragIds == 1

MaxHitIds == 3

MaxCommitIds == 2

(***************************************************************************)
(* LayoutEngine constants and the workspace configuration.                 *)
(***************************************************************************)
HEADER_HEIGHT_PX == 36

PARAM_ROW_HEIGHT_PX == 32

BLOCK_PADDING_PX == 8

COLUMN_GAP_PX == 16

COLUMN_HEADER_HEIGHT_PX == 35

config ==
  [columnCount |-> 2, columnWidthPx |-> 280,
   blockGapPx |-> 12, canvasPaddingPx |-> 20]

Cols == 0 .. (config.columnCount - 1)

Min(a, b) == IF a < b THEN a ELSE b

Max(a, b) == IF a > b THEN a ELSE b

(***************************************************************************)
(* BlockRegistry: the definitions registered before the store is built.    *)
(* A definition is its ordered list of parameters (id, defaultValue).      *)
(***************************************************************************)
definitions ==
  [filter |-> << [id |-> "field", defaultValue |-> ""],
                 [id |-> "operator", defaultValue |-> "equals"] >>,
   log |-> << >>]

DefinitionIds == DOMAIN definitions

UnknownDefinitionId == "nonexistent"

\* BlockRegistry.get succeeds exactly for registered ids
RegistryHas(id) == id \in DefinitionIds

RegistryGet(id) == definitions[id]

ParameterIdsOf(definitionId) ==
  { RegistryGet(definitionId)[i].id : i \in DOMAIN RegistryGet(definitionId) }

(***************************************************************************)
(* LayoutEngine.getBlockHeight / calculateBlockY                           *)
(***************************************************************************)
\* a block height without the padding below the parameter rows
getBlockHeight_noPadding(block) ==
  HEADER_HEIGHT_PX
    + Len(RegistryGet(block.definitionId)) * PARAM_ROW_HEIGHT_PX

getBlockHeight(block) ==
  HEADER_HEIGHT_PX
    + Len(RegistryGet(block.definitionId)) * PARAM_ROW_HEIGHT_PX
    + BLOCK_PADDING_PX

\* the loop reads blocks[i] for every i < orderIndex: getBlockHeight of a
\* missing element throws, so the call throws when orderIndex > length
calculateBlockYThrows(orderIndex, blocks) == orderIndex > Len(blocks)

RECURSIVE calculateBlockY(_, _)
calculateBlockY(orderIndex, blocks) ==
  IF orderIndex <= 0
    THEN COLUMN_HEADER_HEIGHT_PX + config.canvasPaddingPx
    ELSE calculateBlockY(orderIndex - 1, blocks)
           + getBlockHeight(blocks[orderIndex]) + config.blockGapPx

(***************************************************************************)
(* Array helpers: findIndex by id, splice(start, 0, item), splice(idx, 1)  *)
(***************************************************************************)
FindIndex(blocks, instanceId) ==
  IF \E i \in 1 .. Len(blocks) : blocks[i].id = instanceId
    THEN (CHOOSE i \in 1 .. Len(blocks) :
            /\ blocks[i].id = instanceId
            /\ \A j \in 1 .. (i - 1) : blocks[j].id # instanceId) - 1
    ELSE -1

\* Array.prototype.splice clamps its start index into [0, length]
SpliceStart(blocks, start) ==
  IF start < 0 THEN Max(Len(blocks) + start, 0) ELSE Min(start, Len(blocks))

\* a splice that counts its start index from one instead of zero
SpliceInsert_oneBased(blocks, start, item) ==
  LET a == Min(start + 1, Len(blocks))
  IN  SubSeq(blocks, 1, a) \o <<item>> \o SubSeq(blocks, a + 1, Len(blocks))

SpliceInsert(blocks, start, item) ==
  LET a == SpliceStart(blocks, start)
  IN  SubSeq(blocks, 1, a) \o <<item>> \o SubSeq(blocks, a + 1, Len(blocks))

SpliceRemove(blocks, idx) ==
  SubSeq(blocks, 1, idx) \o SubSeq(blocks, idx + 2, Len(blocks))

\* a renumbering loop that starts one position late
ReindexFrom_late(blocks, start) ==
  [i \in 1 .. Len(blocks) |->
     IF i - 1 > start THEN [blocks[i] EXCEPT !.orderIndex = i - 1]
                      ELSE blocks[i]]

\* for (i = start; i < blocks.length; i++) blocks[i].orderIndex = i
RECURSIVE ReindexFrom(_, _)
ReindexFrom(blocks, start) ==
  LET n == Len(blocks)
  IN  IF n = 0 THEN << >>
      ELSE Append(ReindexFrom(SubSeq(blocks, 1, n - 1), start),
                  IF n - 1 >= start
                    THEN [blocks[n] EXCEPT !.orderIndex = n - 1]
                    ELSE blocks[n])

(***************************************************************************)
(* Lookups over all columns (getBlock, and the search loops of removeBlock *)
(* and moveBlock): the first column, in index order, holding the id.       *)
(***************************************************************************)
HasBlock(cols, instanceId) ==
  \E c \in Cols : FindIndex(cols[c], instanceId) # -1

ColumnOf(cols, instanceId) ==
  CHOOSE c \in Cols :
    /\ FindIndex(cols[c], instanceId) # -1
    /\ \A d \in Cols : d < c => FindIndex(cols[d], instanceId) = -1

getBlock(cols, instanceId) ==
  LET c == ColumnOf(cols, instanceId)
  IN  cols[c][FindIndex(cols[c], instanceId) + 1]

BlockIds(cols) ==
  UNION { { cols[c][i].id : i \in 1 .. Len(cols[c]) } : c \in Cols }

(***************************************************************************)
(* addBlock: the parameterValues built from the definition's defaults      *)
(* (a later parameter with the same id overwrites an earlier one).         *)
(***************************************************************************)
\* defaults taken from one fixed definition, whatever definition was resolved
DefaultParameterValues_fixed(definitionId) ==
  [p \in {"field", "operator"} |-> IF p = "field" THEN "" ELSE "equals"]

DefaultParameterValues(definitionId) ==
  LET ps == RegistryGet(definitionId)
  IN  [p \in ParameterIdsOf(definitionId) |->
         ps[CHOOSE i \in DOMAIN ps :
              /\ ps[i].id = p
              /\ \A j \in DOMAIN ps : ps[j].id = p => j <= i].defaultValue]

(***************************************************************************)
(* copyBlock: JSON.parse(JSON.stringify(parameterValues)).  A key whose    *)
(* value is undefined is dropped; NaN is written as null.                  *)
(***************************************************************************)
JsonValue(v) == IF v = "NaN" THEN "null" ELSE v

JsonCopy(parameterValues) ==
  [k \in { q \in DOMAIN parameterValues : parameterValues[q] # "undefined" }
     |-> JsonValue(parameterValues[k])]

(***************************************************************************)
(* View handles: blockElements maps an instance id to its element, of      *)
(* which the style.top written by reflowColumn and the column element it   *)
(* is attached to are kept.  Column elements are registered for every      *)
(* column (CanvasPanel.render).                                            *)
(***************************************************************************)
NewElement == [top |-> -1, parent |-> -1]

registerBlockElement(els, instanceId, el) == (instanceId :> el) @@ els

DeleteElement(els, instanceId) ==
  [e \in DOMAIN els \ {instanceId} |-> els[e]]

AppendChild(els, instanceId, columnIndex) ==
  IF instanceId \in DOMAIN els
    THEN [els EXCEPT ![instanceId].parent = columnIndex]
    ELSE els

\* the loop of reflowColumn from the block at (1-based) position i on; it
\* ends at the first block for which calculateBlockY throws
RECURSIVE reflowFrom(_, _, _)
reflowFrom(blocks, els, i) ==
  IF i > Len(blocks) THEN els
  ELSE IF calculateBlockYThrows(blocks[i].orderIndex, blocks) THEN els
  ELSE LET block == blocks[i]
           y == calculateBlockY(block.orderIndex, blocks)
       IN  reflowFrom(blocks,
                      IF block.id \in DOMAIN els
                        THEN [els EXCEPT ![block.id].top = y]
                        ELSE els,
                      i + 1)

reflowColumn(cols, els, columnIndex) == reflowFrom(cols[columnIndex], els, 1)

reflowColumnThrows(cols, columnIndex) ==
  \E i \in 1 .. Len(cols[columnIndex]) :
    calculateBlockYThrows(cols[columnIndex][i].orderIndex, cols[columnIndex])

(***************************************************************************)
(* The record kept of the most recent call on the store: the operation,    *)
(* whether it returned (ok) or threw, the arguments that identify it, the  *)
(* id it generated and the number of 'workspace:changed' events it         *)
(* emitted.  Of a removeBlock, col is the column the block was taken from. *)
(* Of a moveBlock, fromIdx is the block's index before the call when the   *)
(* move is within one column and toOrder is greater than that index, and   *)
(* -1 otherwise.  early tells that the model which observers read when the *)
(* event was delivered is not the model the call returned with.            *)
(***************************************************************************)
NoCall ==
  [op |-> "none", ok |-> TRUE, id |-> 0, newId |-> 0, def |-> "",
   col |-> -1, ord |-> -1, pid |-> "", fromIdx |-> -1, emits |-> 0,
   early |-> FALSE]

Threw(op) == [NoCall EXCEPT !.op = op, !.ok = FALSE]

(***************************************************************************)
(* WorkspaceManager.addBlock, after generateId has produced id.            *)
(* registry.get throws for an unknown definition, and columns[columnIndex] *)
(* is undefined for an index that is not a column: both fail before any    *)
(* write to the model.  The renumbering loop starts at orderIndex + 1: for  *)
(* an orderIndex below -1 it reads column.blocks[i] at a negative i, which  *)
(* is undefined, and throws after the splice, before the view handle is    *)
(* made.  reflowColumn is the last call before the emit: if it throws, the  *)
(* block has been inserted and nothing is emitted.                         *)
(***************************************************************************)
\* the end of addBlock: reflowColumn of the column, then the emit
addBlockReflow(cols1, els1, columnIndex) ==
  [ok |-> ~reflowColumnThrows(cols1, columnIndex),
   columns |-> cols1,
   blockElements |-> reflowColumn(cols1, els1, columnIndex),
   emits |-> IF reflowColumnThrows(cols1, columnIndex) THEN 0 ELSE 1]

\* an insert that registers the view handle before it resolves the definition
addBlock_eager(cols, els, id, definitionId, columnIndex, orderIndex) ==
  IF ~RegistryHas(definitionId) \/ columnIndex \notin Cols
    THEN [ok |-> FALSE, columns |-> cols,
          blockElements |-> registerBlockElement(els, id, NewElement),
          emits |-> 0]
    ELSE
      LET instance == [id |-> id, definitionId |-> definitionId,
                       columnIndex |-> columnIndex, orderIndex |-> orderIndex,
                       parameterValues |-> DefaultParameterValues(definitionId)]
          cols1 == [cols EXCEPT ![columnIndex] =
                      ReindexFrom(SpliceInsert(@, orderIndex, instance),
                                  orderIndex + 1)]
          els1 == AppendChild(registerBlockElement(els, id, NewElement),
                              id, columnIndex)
      IN  addBlockReflow(cols1, els1, columnIndex)

addBlock(cols, els, id, definitionId, columnIndex, orderIndex) ==
  IF ~RegistryHas(definitionId) \/ columnIndex \notin Cols
    THEN [ok |-> FALSE, columns |-> cols, blockElements |-> els, emits |-> 0]
    ELSE
      LET instance == [id |-> id, definitionId |-> definitionId,
                       columnIndex |-> columnIndex, orderIndex |-> orderIndex,
                       parameterValues |-> DefaultParameterValues(definitionId)]
          spliced == SpliceInsert(cols[columnIndex], orderIndex, instance)
          cols1 == [cols EXCEPT ![columnIndex] =
                      ReindexFrom(spliced, orderIndex + 1)]
          els1 == AppendChild(registerBlockElement(els, id, NewElement),
                              id, columnIndex)
      IN  IF orderIndex + 1 < 0
            THEN [ok |-> FALSE,
                  columns |-> [cols EXCEPT ![columnIndex] = spliced],
                  blockElements |-> els, emits |-> 0]
            ELSE addBlockReflow(cols1, els1, columnIndex)

\* an id derived from the number of blocks in the workspace
generateId_count == Cardinality(BlockIds(columns)) + 1

generateId == nextInstanceId

\* the store after addBlock has ended with r
AddBlockResult(id, definitionId, columnIndex, orderIndex, r) ==
  /\ nextInstanceId' = nextInstanceId + 1
  /\ issuedIds' = issuedIds \cup {id}
  /\ columns' = r.columns
  /\ blockElements' = r.blockElements
  /\ last' = IF r.ok
               THEN [NoCall EXCEPT !.op = "addBlock", !.newId = id,
                       !.def = definitionId, !.col = columnIndex,
                       !.ord = orderIndex, !.emits = r.emits]
               ELSE Threw("addBlock")

AddBlock(definitionId, columnIndex, orderIndex) ==
  AddBlockResult(generateId, definitionId, columnIndex, orderIndex,
                 addBlock(columns, blockElements, generateId,
                          definitionId, columnIndex, orderIndex))

(***************************************************************************)
(* WorkspaceManager.removeBlock                                            *)
(***************************************************************************)
\* the end of removeBlock: reflowColumn of the column, then the emit
RemoveBlockReflow(cols1, els1, c) ==
  /\ columns' = cols1
  /\ blockElements' = reflowColumn(cols1, els1, c)
  /\ last' = IF reflowColumnThrows(cols1, c)
               THEN Threw("removeBlock")
               ELSE [NoCall EXCEPT !.op = "removeBlock",
                       !.col = c, !.emits = 1]

RemoveBlock(instanceId) ==
  /\ UNCHANGED <<nextInstanceId, issuedIds>>
  /\ IF ~HasBlock(columns, instanceId)
       THEN /\ UNCHANGED <<columns, blockElements>>
            /\ last' = Threw("removeBlock")
       ELSE
         LET c == ColumnOf(columns, instanceId)
             blockIndex == FindIndex(columns[c], instanceId)
             cols1 == [columns EXCEPT ![c] =
                         ReindexFrom(SpliceRemove(@, blockIndex), blockIndex)]
             els1 == DeleteElement(blockElements, instanceId)
         IN  RemoveBlockReflow(cols1, els1, c)

(***************************************************************************)
(* WorkspaceManager.moveBlock                                              *)
(***************************************************************************)
\* no adjustment for the slot the block leaves behind
AdjustedOrder_none(fromColumn, fromIndex, toColumn, toOrder) == toOrder

\* adjustment also when the target index is the block's own index
AdjustedOrder_geq(fromColumn, fromIndex, toColumn, toOrder) ==
  IF fromColumn = toColumn /\ toOrder >= fromIndex
    THEN toOrder - 1 ELSE toOrder

\* a move that always counts the slot the block leaves behind
AdjustedOrder_always(fromColumn, fromIndex, toColumn, toOrder) ==
  IF fromColumn = toColumn THEN toOrder - 1 ELSE toOrder

AdjustedOrder(fromColumn, fromIndex, toColumn, toOrder) ==
  IF fromColumn = toColumn /\ toOrder > fromIndex THEN toOrder - 1 ELSE toOrder

\* the end of moveBlock: reflowColumn of the source column and, when it is
\* another column, of the target column, then the emit
MoveBlockReflow(cols1, els1, instanceId, fromColumn, fromIndex, toColumn, toOrder) ==
  LET els2 == reflowColumn(cols1, els1, fromColumn)
      els3 == IF fromColumn # toColumn
                   /\ ~reflowColumnThrows(cols1, fromColumn)
                THEN reflowColumn(cols1, els2, toColumn)
                ELSE els2
  IN  /\ columns' = cols1
      /\ blockElements' = els3
      /\ last' =
           IF \/ reflowColumnThrows(cols1, fromColumn)
              \/ reflowColumnThrows(cols1, toColumn)
             THEN Threw("moveBlock")
             ELSE [NoCall EXCEPT !.op = "moveBlock",
                    !.id = instanceId, !.col = toColumn,
                    !.ord = toOrder,
                    !.fromIdx =
                      IF fromColumn = toColumn /\ toOrder > fromIndex
                        THEN fromIndex ELSE -1,
                    !.emits = 1]

MoveBlock(instanceId, toColumn, toOrder) ==
  /\ UNCHANGED <<nextInstanceId, issuedIds>>
  /\ IF ~HasBlock(columns, instanceId)
       THEN /\ UNCHANGED <<columns, blockElements>>
            /\ last' = Threw("moveBlock")
       ELSE
         LET fromColumn == ColumnOf(columns, instanceId)
             fromIndex == FindIndex(columns[fromColumn], instanceId)
             block == columns[fromColumn][fromIndex + 1]
             removed == [columns EXCEPT ![fromColumn] =
                           SpliceRemove(@, fromIndex)]
             adjustedOrder ==
               AdjustedOrder(fromColumn, fromIndex, toColumn, toOrder)
             moved == [block EXCEPT !.columnIndex = toColumn,
                                    !.orderIndex = adjustedOrder]
         IN  IF toColumn \notin Cols
               THEN \* targetColumn is undefined: targetColumn.blocks throws
                    \* after the source column has been spliced
                    /\ columns' = removed
                    /\ UNCHANGED blockElements
                    /\ last' = Threw("moveBlock")
               ELSE
                 LET inserted == [removed EXCEPT ![toColumn] =
                                    SpliceInsert(@, adjustedOrder, moved)]
                     src == [inserted EXCEPT ![fromColumn] =
                               ReindexFrom(@, 0)]
                     cols1 == IF fromColumn # toColumn
                                THEN [src EXCEPT ![toColumn] =
                                        ReindexFrom(@, 0)]
                                ELSE src
                     els1 == AppendChild(blockElements, instanceId, toColumn)
                 IN  MoveBlockReflow(cols1, els1, instanceId, fromColumn,
                                     fromIndex, toColumn, toOrder)

(***************************************************************************)
(* WorkspaceManager.copyBlock: getBlock, JSON copy, addBlock directly      *)
(* below the source, then the copy's parameterValues are overwritten.      *)
(***************************************************************************)
SetParameterValues(cols, instanceId, parameterValues) ==
  LET c == ColumnOf(cols, instanceId)
      i == FindIndex(cols[c], instanceId) + 1
  IN  [cols EXCEPT ![c][i].parameterValues = parameterValues]

\* the copy placed at the source's own index
CopyTarget_same(source) ==
  [columnIndex |-> source.columnIndex, orderIndex |-> source.orderIndex]

\* the arguments copyBlock passes to addBlock
CopyTarget(source) ==
  [columnIndex |-> source.columnIndex, orderIndex |-> source.orderIndex + 1]

\* the store after the addBlock call of copyBlock has ended with r: addBlock
\* has emitted on r.columns when the copy's parameterValues are overwritten
CopyBlockResult(instanceId, id, copiedParams, r) ==
  LET overwritten == SetParameterValues(r.columns, id, copiedParams)
  IN  /\ nextInstanceId' = nextInstanceId + 1
      /\ issuedIds' = issuedIds \cup {id}
      /\ columns' = IF r.ok THEN overwritten ELSE r.columns
      /\ blockElements' = r.blockElements
      /\ last' = IF r.ok
                   THEN [NoCall EXCEPT !.op = "copyBlock",
                           !.id = instanceId, !.newId = id,
                           !.emits = r.emits,
                           !.early = (overwritten # r.columns)]
                   ELSE Threw("copyBlock")

CopyBlock(instanceId) ==
  IF ~HasBlock(columns, instanceId)
    THEN /\ UNCHANGED <<columns, blockElements, nextInstanceId, issuedIds>>
         /\ last' = Threw("copyBlock")
    ELSE
      LET source == getBlock(columns, instanceId)
          copiedParams == JsonCopy(source.parameterValues)
          id == generateId
          target == CopyTarget(source)
      IN  CopyBlockResult(instanceId, id, copiedParams,
                          addBlock(columns, blockElements, id,
                                   source.definitionId, target.columnIndex,
                                   target.orderIndex))

(***************************************************************************)
(* WorkspaceManager.updateParameter                                        *)
(***************************************************************************)
SetParameter(parameterValues, paramId, value) ==
  (paramId :> value) @@ parameterValues

UpdateParameter(instanceId, paramId, value) ==
  /\ UNCHANGED <<blockElements, nextInstanceId, issuedIds>>
  /\ IF ~HasBlock(columns, instanceId)
       THEN /\ UNCHANGED columns
            /\ last' = Threw("updateParameter")
       ELSE
         LET block == getBlock(columns, instanceId)
         IN  /\ columns' = SetParameterValues(columns, instanceId,
                              SetParameter(block.parameterValues,
                                           paramId, value))
             /\ last' = [NoCall EXCEPT !.op = "updateParameter",
                           !.id = instanceId, !.pid = paramId, !.emits = 1]

(***************************************************************************)
(* WorkspaceManager.getBlock as a call of its own                          *)
(***************************************************************************)
GetBlock(instanceId) ==
  /\ UNCHANGED <<columns, blockElements, nextInstanceId, issuedIds>>
  /\ last' = IF HasBlock(columns, instanceId)
               THEN [NoCall EXCEPT !.op = "getBlock"]
               ELSE Threw("getBlock")

(***************************************************************************)
(* SerializationService.  A JSON text is modelled by <<data>>, data being   *)
(* the value JSON.parse yields for it, and a text that is not JSON by the  *)
(* empty sequence.  The document written by serialize holds the columns as *)
(* an array of arrays of blocks                                            *)
(* without columnIndex and orderIndex; what JSON.stringify does to the     *)
(* parameterValues is JsonCopy.  A workspace is [columns, config], where   *)
(* columns maps the index of a column to its blocks.  The result of        *)
(* deserialize is [ok, workspace]: ok is FALSE when the call throws, and   *)
(* workspace is then null.                                                 *)
(***************************************************************************)
Null == << >>

NotJson == << >>

\* JSON.stringify of a document
JsonText(data) == <<data>>

\* JSON.parse of a text that is JSON
JsonParse(json) == json[1]

SUPPORTED_VERSION == 1

getWorkspace == [columns |-> columns, config |-> config]

serializeBlock(block) ==
  [id |-> block.id, definitionId |-> block.definitionId,
   parameterValues |-> JsonCopy(block.parameterValues)]

serialize(workspace) ==
  LET n == Cardinality(DOMAIN workspace.columns)
  IN  JsonText(
      [version |-> SUPPORTED_VERSION,
       config |-> [columnCount |-> workspace.config.columnCount,
                   columnWidthPx |-> workspace.config.columnWidthPx,
                   blockGapPx |-> workspace.config.blockGapPx,
                   canvasPaddingPx |-> workspace.config.canvasPaddingPx],
       columns |-> [k \in 1 .. n |->
                      [i \in 1 .. Len(workspace.columns[k - 1]) |->
                         serializeBlock(workspace.columns[k - 1][i])]]])

deserializeBlock(blockData, columnIndex, orderIndex) ==
  [id |-> blockData.id, definitionId |-> blockData.definitionId,
   columnIndex |-> columnIndex, orderIndex |-> orderIndex,
   parameterValues |-> blockData.parameterValues]

Failed == [ok |-> FALSE, workspace |-> Null]

\* the workspace built from a document: a column per array of data.columns,
\* the positions taken from the array indices
deserializeColumns(data) ==
  [columns |->
     [c \in 0 .. (Len(data.columns) - 1) |->
        [i \in 1 .. Len(data.columns[c + 1]) |->
           deserializeBlock(data.columns[c + 1][i], c, i - 1)]],
   config |-> data.config]

\* a deserialize that does not look the definitions up
deserialize_unchecked(json) ==
  IF json = NotJson THEN Failed
  ELSE LET data == JsonParse(json)
       IN  IF "version" \notin DOMAIN data \/ data.version # SUPPORTED_VERSION
             THEN Failed
           ELSE IF "config" \notin DOMAIN data \/ "columns" \notin DOMAIN data
             THEN Failed
           ELSE [ok |-> TRUE, workspace |-> <<deserializeColumns(data)>>]

\* JSON.parse throws for a text that is not JSON; data.config.columnCount
\* and data.columns.map throw for a document without config or columns;
\* registry.get throws for a definitionId that is not registered
deserialize(json) ==
  IF json = NotJson THEN Failed
  ELSE LET data == JsonParse(json)
       IN  IF "version" \notin DOMAIN data \/ data.version # SUPPORTED_VERSION
             THEN Failed
           ELSE IF "config" \notin DOMAIN data \/ "columns" \notin DOMAIN data
             THEN Failed
           ELSE IF \E k \in 1 .. Len(data.columns) :
                     \E i \in 1 .. Len(data.columns[k]) :
                       ~RegistryHas(data.columns[k][i].definitionId)
             THEN Failed
           ELSE [ok |-> TRUE, workspace |-> <<deserializeColumns(data)>>]

(***************************************************************************)
(* LayoutEngine.calculateColumnX / getDropTarget.  null is the empty       *)
(* sequence and a drop target t the one-element sequence <<t>>.  The       *)
(* midpoint test mouseY < blockY + blockHeight / 2 is made on doubled      *)
(* values; block heights and blockGapPx are even, so the halves are exact. *)
(***************************************************************************)
calculateColumnX(columnIndex) ==
  config.canvasPaddingPx + columnIndex * (config.columnWidthPx + COLUMN_GAP_PX)

\* a loop that takes the midpoint of a block as above the block
RECURSIVE dropSlotFrom_inclusive(_, _, _, _)
dropSlotFrom_inclusive(i, mouseY, blocks, columnIndex) ==
  IF i >= Len(blocks)
    THEN <<[columnIndex |-> columnIndex, orderIndex |-> Len(blocks),
            indicatorY |-> calculateBlockY(Len(blocks), blocks)]>>
    ELSE LET blockY == calculateBlockY(i, blocks)
             blockHeight == getBlockHeight(blocks[i + 1])
         IN  IF 2 * mouseY <= 2 * blockY + blockHeight
               THEN <<[columnIndex |-> columnIndex, orderIndex |-> i,
                       indicatorY |-> blockY - (config.blockGapPx \div 2)]>>
               ELSE dropSlotFrom_inclusive(i + 1, mouseY, blocks, columnIndex)

\* a loop whose append slot lies one past the length of the column
RECURSIVE dropSlotFrom_past(_, _, _, _)
dropSlotFrom_past(i, mouseY, blocks, columnIndex) ==
  IF i >= Len(blocks)
    THEN <<[columnIndex |-> columnIndex, orderIndex |-> Len(blocks) + 1,
            indicatorY |-> calculateBlockY(Len(blocks), blocks)]>>
    ELSE LET blockY == calculateBlockY(i, blocks)
             blockHeight == getBlockHeight(blocks[i + 1])
         IN  IF 2 * mouseY < 2 * blockY + blockHeight
               THEN <<[columnIndex |-> columnIndex, orderIndex |-> i,
                       indicatorY |-> blockY - (config.blockGapPx \div 2)]>>
               ELSE dropSlotFrom_past(i + 1, mouseY, blocks, columnIndex)

\* a loop that draws the indicator at the bottom of the block above
RECURSIVE dropSlotFrom_fullGap(_, _, _, _)
dropSlotFrom_fullGap(i, mouseY, blocks, columnIndex) ==
  IF i >= Len(blocks)
    THEN <<[columnIndex |-> columnIndex, orderIndex |-> Len(blocks),
            indicatorY |-> calculateBlockY(Len(blocks), blocks)]>>
    ELSE LET blockY == calculateBlockY(i, blocks)
             blockHeight == getBlockHeight(blocks[i + 1])
         IN  IF 2 * mouseY < 2 * blockY + blockHeight
               THEN <<[columnIndex |-> columnIndex, orderIndex |-> i,
                       indicatorY |-> blockY - config.blockGapPx]>>
               ELSE dropSlotFrom_fullGap(i + 1, mouseY, blocks, columnIndex)

\* the loop over the blocks of the column hit, from index i on
RECURSIVE dropSlotFrom(_, _, _, _)
dropSlotFrom(i, mouseY, blocks, columnIndex) ==
  IF i >= Len(blocks)
    THEN <<[columnIndex |-> columnIndex, orderIndex |-> Len(blocks),
            indicatorY |-> calculateBlockY(Len(blocks), blocks)]>>
    ELSE LET blockY == calculateBlockY(i, blocks)
             blockHeight == getBlockHeight(blocks[i + 1])
         IN  IF 2 * mouseY < 2 * blockY + blockHeight
               THEN <<[columnIndex |-> columnIndex, orderIndex |-> i,
                       indicatorY |-> blockY - (config.blockGapPx \div 2)]>>
               ELSE dropSlotFrom(i + 1, mouseY, blocks, columnIndex)

\* a hit test whose columns exclude their right edge
getDropTarget_halfOpen(mouseX, mouseY, cols) ==
  LET adjustedX == mouseX - config.canvasPaddingPx
      columnWidth == config.columnWidthPx + COLUMN_GAP_PX
      columnIndex == adjustedX \div columnWidth
      posInColumn == adjustedX % columnWidth
  IN  IF adjustedX < 0 THEN Null
      ELSE IF posInColumn >= config.columnWidthPx
                \/ columnIndex >= config.columnCount
        THEN Null
        ELSE dropSlotFrom(0, mouseY, cols[columnIndex], columnIndex)

getDropTarget(mouseX, mouseY, cols) ==
  LET adjustedX == mouseX - config.canvasPaddingPx
      columnWidth == config.columnWidthPx + COLUMN_GAP_PX
      columnIndex == adjustedX \div columnWidth
      posInColumn == adjustedX % columnWidth
  IN  IF adjustedX < 0 THEN Null
      ELSE IF posInColumn > config.columnWidthPx
                \/ columnIndex >= config.columnCount
        THEN Null
        ELSE dropSlotFrom(0, mouseY, cols[columnIndex], columnIndex)

(***************************************************************************)
(* DragManager.  currentDrag is null or <<state>>; in a drag state the     *)
(* null instanceId, originColumn and originOrder of a palette drag are -1. *)
(* Of the ghost and the drop indicator the style.display is kept, of a     *)
(* block element registered with the DragManager its style.opacity.  No    *)
(* canvas element is registered, so canvas coordinates are the mouse       *)
(* coordinates.  dcall is the record of the most recent call on the        *)
(* DragManager: the operation, whether it returned, and the number of      *)
(* store mutations it called.  A call on the DragManager that calls no     *)
(* store operation leaves NoCall in last, and a call on the store leaves   *)
(* NoDragCall in dcall.                                                    *)
(***************************************************************************)
NoDragCall == [op |-> "none", ok |-> TRUE, calls |-> 0]

DragCall(op, ok, calls) == [op |-> op, ok |-> ok, calls |-> calls]

isDragging == currentDrag # Null

cleanupDragVisuals ==
  /\ ghostEl' = "none"
  /\ dropIndicatorEl' = "none"

SetOpacity(els, instanceId, opacity) ==
  IF instanceId \in DOMAIN els
    THEN [els EXCEPT ![instanceId] = opacity]
    ELSE els

RegisterDragBlockElement(instanceId) ==
  /\ dragBlockElements' = (instanceId :> "") @@ dragBlockElements
  /\ UNCHANGED <<storeVars, currentDrag, ghostEl, dropIndicatorEl>>
  /\ last' = NoCall
  /\ dcall' = DragCall("registerBlockElement", TRUE, 0)

\* a startPaletteDrag that keeps the drop target of the drag it replaces
StartPaletteDrag_merge(definitionId, mouseX, mouseY) ==
  /\ UNCHANGED <<storeVars, dropIndicatorEl, dragBlockElements>>
  /\ last' = NoCall
  /\ IF ~RegistryHas(definitionId)
       THEN /\ UNCHANGED <<currentDrag, ghostEl>>
            /\ dcall' = DragCall("startPaletteDrag", FALSE, 0)
       ELSE /\ currentDrag' =
                 <<[source |-> "palette", definitionId |-> definitionId,
                    instanceId |-> -1, originColumn |-> -1,
                    originOrder |-> -1, mouseX |-> mouseX, mouseY |-> mouseY,
                    currentDropTarget |->
                      IF isDragging THEN currentDrag[1].currentDropTarget
                                    ELSE Null]>>
            /\ ghostEl' = "block"
            /\ dcall' = DragCall("startPaletteDrag", TRUE, 0)

StartPaletteDrag(definitionId, mouseX, mouseY) ==
  /\ UNCHANGED <<storeVars, dropIndicatorEl, dragBlockElements>>
  /\ last' = NoCall
  /\ IF ~RegistryHas(definitionId)
       THEN /\ UNCHANGED <<currentDrag, ghostEl>>
            /\ dcall' = DragCall("startPaletteDrag", FALSE, 0)
       ELSE /\ currentDrag' =
                 <<[source |-> "palette", definitionId |-> definitionId,
                    instanceId |-> -1, originColumn |-> -1,
                    originOrder |-> -1, mouseX |-> mouseX, mouseY |-> mouseY,
                    currentDropTarget |-> Null]>>
            /\ ghostEl' = "block"
            /\ dcall' = DragCall("startPaletteDrag", TRUE, 0)

StartCanvasDrag(instanceId, mouseX, mouseY) ==
  /\ UNCHANGED <<storeVars, dropIndicatorEl>>
  /\ last' = NoCall
  /\ IF ~HasBlock(columns, instanceId)
       THEN /\ UNCHANGED <<currentDrag, ghostEl, dragBlockElements>>
            /\ dcall' = DragCall("startCanvasDrag", FALSE, 0)
       ELSE LET block == getBlock(columns, instanceId)
            IN  /\ currentDrag' =
                     <<[source |-> "canvas",
                        definitionId |-> block.definitionId,
                        instanceId |-> instanceId,
                        originColumn |-> block.columnIndex,
                        originOrder |-> block.orderIndex,
                        mouseX |-> mouseX, mouseY |-> mouseY,
                        currentDropTarget |-> Null]>>
                /\ dragBlockElements' =
                     SetOpacity(dragBlockElements, instanceId, "0")
                /\ ghostEl' = "block"
                /\ dcall' = DragCall("startCanvasDrag", TRUE, 0)

\* an updateDrag that shows the drop indicator without a drag
UpdateDrag_idleIndicator(mouseX, mouseY) ==
  /\ UNCHANGED <<storeVars, ghostEl, dragBlockElements>>
  /\ last' = NoCall
  /\ dcall' = DragCall("updateDrag", TRUE, 0)
  /\ IF ~isDragging
       THEN /\ UNCHANGED currentDrag
            /\ dropIndicatorEl' = "block"
       ELSE LET target == getDropTarget(mouseX, mouseY, columns)
            IN  /\ currentDrag' =
                     <<[currentDrag[1] EXCEPT !.mouseX = mouseX,
                                              !.mouseY = mouseY,
                                              !.currentDropTarget = target]>>
                /\ dropIndicatorEl' = IF target = Null THEN "none" ELSE "block"

UpdateDrag(mouseX, mouseY) ==
  /\ UNCHANGED <<storeVars, ghostEl, dragBlockElements>>
  /\ last' = NoCall
  /\ dcall' = DragCall("updateDrag", TRUE, 0)
  /\ IF ~isDragging
       THEN UNCHANGED <<currentDrag, dropIndicatorEl>>
       ELSE LET target == getDropTarget(mouseX, mouseY, columns)
            IN  /\ currentDrag' =
                     <<[currentDrag[1] EXCEPT !.mouseX = mouseX,
                                              !.mouseY = mouseY,
                                              !.currentDropTarget = target]>>
                /\ dropIndicatorEl' = IF target = Null THEN "none" ELSE "block"

\* a cancelDrag that leaves the dragged block hidden
CancelEffects_keepHidden ==
  /\ UNCHANGED dragBlockElements
  /\ cleanupDragVisuals
  /\ currentDrag' = Null

\* the body of cancelDrag during a drag
CancelEffects ==
  /\ dragBlockElements' =
       IF currentDrag[1].source = "canvas" /\ currentDrag[1].instanceId # -1
         THEN SetOpacity(dragBlockElements, currentDrag[1].instanceId, "1")
         ELSE dragBlockElements
  /\ cleanupDragVisuals
  /\ currentDrag' = Null

CancelDrag ==
  /\ UNCHANGED storeVars
  /\ last' = NoCall
  /\ dcall' = DragCall("cancelDrag", TRUE, 0)
  /\ IF ~isDragging THEN UNCHANGED dragVars ELSE CancelEffects

\* a commit that takes the drag of a block for a palette drag and back
CommitDrag_swapped(drag, target) ==
  IF drag.source = "canvas"
    THEN AddBlock(drag.definitionId, target.columnIndex, target.orderIndex)
    ELSE MoveBlock(drag.instanceId, target.columnIndex, target.orderIndex)

\* the store call of endDrag
CommitDrag(drag, target) ==
  IF drag.source = "palette"
    THEN AddBlock(drag.definitionId, target.columnIndex, target.orderIndex)
    ELSE MoveBlock(drag.instanceId, target.columnIndex, target.orderIndex)

\* endDrag: an exception of the store call leaves endDrag before
\* cleanupDragVisuals and before currentDrag is reset
EndDrag ==
  IF ~isDragging
    THEN /\ UNCHANGED <<storeVars, dragVars>>
         /\ last' = NoCall
         /\ dcall' = DragCall("endDrag", TRUE, 0)
  ELSE IF currentDrag[1].currentDropTarget = Null
    THEN /\ UNCHANGED storeVars
         /\ last' = NoCall
         /\ dcall' = DragCall("endDrag", TRUE, 0)
         /\ CancelEffects
  ELSE
    LET drag == currentDrag[1]
        target == drag.currentDropTarget[1]
    IN  /\ CommitDrag(drag, target)
        /\ dcall' = DragCall("endDrag", last'.ok, 1)
        /\ IF last'.ok
             THEN /\ cleanupDragVisuals
                  /\ currentDrag' = Null
                  /\ UNCHANGED dragBlockElements
             ELSE UNCHANGED dragVars

(***************************************************************************)
(* Host bridges.  localStorage is the item stored under STORAGE_KEY and    *)
(* vscodeState what vscodeApi.getState() returns: null, or <<text>>.  Of a *)
(* bridge, loadCallback tells whether a callback is registered and         *)
(* lastWorkspace is null or <<workspace>>.  hcall is the record of the     *)
(* most recent call: the operation, its arguments, whether it returned,    *)
(* the workspaces the load callback was invoked with, in order, and the    *)
(* messages passed to vscodeApi.postMessage, in order.                     *)
(***************************************************************************)
NoHostCall ==
  [op |-> "none", arg |-> << >>, ok |-> TRUE, delivered |-> << >>,
   posted |-> << >>]

HostCall(op, arg, ok, delivered, posted) ==
  [op |-> op, arg |-> arg, ok |-> ok, delivered |-> delivered,
   posted |-> posted]

NewBridge == [loadCallback |-> FALSE, lastWorkspace |-> Null]

\* this.loadCallback?.(workspace)
Deliver(bridge, workspace) ==
  IF bridge.loadCallback THEN <<workspace>> ELSE << >>

SaveMessage(json) == [type |-> "save", payload |-> json]

ReadyMessage == [type |-> "ready"]

\* SerializationService.deserialize called on its own
Deserialize(json) ==
  /\ UNCHANGED hostVars
  /\ hcall' = HostCall("deserialize", <<json>>, deserialize(json).ok,
                       deserialize(json).workspace, << >>)

WebSendState(workspace) ==
  /\ webBridge' = [webBridge EXCEPT !.lastWorkspace = <<workspace>>]
  /\ localStorage' = <<serialize(workspace)>>
  /\ UNCHANGED <<vscodeState, vscodeBridge>>
  /\ hcall' = HostCall("web.sendState", <<workspace>>, TRUE, << >>, << >>)

WebOnLoadState ==
  /\ webBridge' = [webBridge EXCEPT !.loadCallback = TRUE]
  /\ UNCHANGED <<localStorage, vscodeState, vscodeBridge>>
  /\ hcall' = HostCall("web.onLoadState", << >>, TRUE, << >>, << >>)

WebRequestSave ==
  /\ localStorage' = IF webBridge.lastWorkspace # Null
                       THEN <<serialize(webBridge.lastWorkspace[1])>>
                       ELSE localStorage
  /\ UNCHANGED <<webBridge, vscodeState, vscodeBridge>>
  /\ hcall' = HostCall("web.requestSave", << >>, TRUE, << >>, << >>)

\* a requestLoad that hands an empty workspace to the callback when the
\* stored text cannot be deserialized
WebRequestLoad_lenient ==
  /\ UNCHANGED hostVars
  /\ IF localStorage = Null
       THEN hcall' = HostCall("web.requestLoad", << >>, TRUE, << >>, << >>)
       ELSE LET r == deserialize(localStorage[1])
            IN  hcall' =
                  HostCall("web.requestLoad", localStorage, TRUE,
                           Deliver(webBridge,
                                   IF r.ok THEN r.workspace[1]
                                   ELSE [columns |-> [c \in Cols |-> << >>],
                                         config |-> config]),
                           << >>)

\* an exception of deserialize leaves requestLoad before the callback
WebRequestLoad ==
  /\ UNCHANGED hostVars
  /\ IF localStorage = Null
       THEN hcall' = HostCall("web.requestLoad", << >>, TRUE, << >>, << >>)
       ELSE LET r == deserialize(localStorage[1])
            IN  hcall' =
                  IF r.ok
                    THEN HostCall("web.requestLoad", localStorage, TRUE,
                                  Deliver(webBridge, r.workspace[1]), << >>)
                    ELSE HostCall("web.requestLoad", localStorage, FALSE,
                                  << >>, << >>)

VSCodeSendState(workspace) ==
  /\ vscodeBridge' = [vscodeBridge EXCEPT !.lastWorkspace = <<workspace>>]
  /\ vscodeState' = <<serialize(workspace)>>
  /\ UNCHANGED <<localStorage, webBridge>>
  /\ hcall' = HostCall("vscode.sendState", <<workspace>>, TRUE, << >>,
                       <<SaveMessage(serialize(workspace))>>)

VSCodeOnLoadState ==
  /\ vscodeBridge' = [vscodeBridge EXCEPT !.loadCallback = TRUE]
  /\ UNCHANGED <<localStorage, webBridge, vscodeState>>
  /\ hcall' = HostCall("vscode.onLoadState", << >>, TRUE, << >>, << >>)

VSCodeRequestSave ==
  /\ UNCHANGED hostVars
  /\ hcall' = HostCall("vscode.requestSave", << >>, TRUE, << >>,
                       <<ReadyMessage>>)

\* a requestLoad that posts 'ready' whether or not state is persisted
VSCodeRequestLoad_alwaysReady ==
  /\ UNCHANGED <<localStorage, webBridge, vscodeState>>
  /\ IF vscodeState = Null
       THEN /\ UNCHANGED vscodeBridge
            /\ hcall' = HostCall("vscode.requestLoad", << >>, TRUE, << >>,
                                 <<ReadyMessage>>)
       ELSE LET r == deserialize(vscodeState[1])
            IN  IF r.ok
                  THEN /\ vscodeBridge' =
                            [vscodeBridge EXCEPT !.lastWorkspace = r.workspace]
                       /\ hcall' =
                            HostCall("vscode.requestLoad", vscodeState, TRUE,
                                     Deliver(vscodeBridge, r.workspace[1]),
                                     <<ReadyMessage>>)
                  ELSE /\ UNCHANGED vscodeBridge
                       /\ hcall' = HostCall("vscode.requestLoad", vscodeState,
                                            FALSE, << >>, << >>)

VSCodeRequestLoad ==
  /\ UNCHANGED <<localStorage, webBridge, vscodeState>>
  /\ IF vscodeState = Null
       THEN /\ UNCHANGED vscodeBridge
            /\ hcall' = HostCall("vscode.requestLoad", << >>, TRUE, << >>,
                                 <<ReadyMessage>>)
       ELSE LET r == deserialize(vscodeState[1])
            IN  IF r.ok
                  THEN /\ vscodeBridge' =
                            [vscodeBridge EXCEPT !.lastWorkspace = r.workspace]
                       /\ hcall' =
                            HostCall("vscode.requestLoad", vscodeState, TRUE,
                                     Deliver(vscodeBridge, r.workspace[1]),
                                     << >>)
                  ELSE /\ UNCHANGED vscodeBridge
                       /\ hcall' = HostCall("vscode.requestLoad", vscodeState,
                                            FALSE, << >>, << >>)

\* the listener of setupMessageListener on a message event
VSCodeMessage(type, payload) ==
  /\ UNCHANGED hostVars
  /\ IF type = "load"
       THEN LET r == deserialize(payload)
            IN  hcall' =
                  IF r.ok
                    THEN HostCall("vscode.message", <<type, payload>>, TRUE,
                                  Deliver(vscodeBridge, r.workspace[1]), << >>)
                    ELSE HostCall("vscode.message", <<type, payload>>, FALSE,
                                  << >>, << >>)
       ELSE hcall' = HostCall("vscode.message", <<type, payload>>, TRUE,
                              << >>, << >>)

(***************************************************************************)
(* BlockRegistry.  blockRegistry holds the two maps of the registry in     *)
(* insertion order: definitions is the sequence of the values of the map   *)
(* by id, categories the sequence of the entries (category, blocks) of the *)
(* map by category.  A definition is modelled by its id, its category, its *)
(* name and its parameters.  rcall is the record of the most recent call:  *)
(* the operation, its argument, whether it returned, and the definition    *)
(* get returned.                                                           *)
(***************************************************************************)
NoRegistryCall == [op |-> "none", arg |-> << >>, ok |-> TRUE, value |-> Null]

RegistryCall(op, arg, ok, value) ==
  [op |-> op, arg |-> arg, ok |-> ok, value |-> value]

NewRegistry == [definitions |-> << >>, categories |-> << >>]

\* this.definitions.has(id)
has(registry, id) ==
  \E i \in 1 .. Len(registry.definitions) : registry.definitions[i].id = id

\* this.categories.get(category): the position of the entry, 0 for none
categoryEntry(registry, category) ==
  IF \E k \in 1 .. Len(registry.categories) :
       registry.categories[k].category = category
    THEN CHOOSE k \in 1 .. Len(registry.categories) :
           registry.categories[k].category = category
    ELSE 0

\* the maps after the definition is stored, whatever the id
store(registry, definition) ==
  [definitions |->
     IF has(registry, definition.id)
       THEN [i \in 1 .. Len(registry.definitions) |->
               IF registry.definitions[i].id = definition.id
                 THEN definition ELSE registry.definitions[i]]
       ELSE Append(registry.definitions, definition),
   categories |->
     IF categoryEntry(registry, definition.category) # 0
       THEN [registry.categories
               EXCEPT ![categoryEntry(registry, definition.category)].blocks =
                        Append(@, definition)]
       ELSE Append(registry.categories,
                   [category |-> definition.category,
                    blocks |-> <<definition>>])]

\* a register that replaces the definition of an id already present
register_overwrite(registry, definition) ==
  [ok |-> TRUE, registry |-> store(registry, definition)]

register(registry, definition) ==
  IF has(registry, definition.id)
    THEN [ok |-> FALSE, registry |-> registry]
    ELSE [ok |-> TRUE, registry |-> store(registry, definition)]

get(registry, id) ==
  IF has(registry, id)
    THEN [ok |-> TRUE,
          value |-> <<registry.definitions[
                        CHOOSE i \in 1 .. Len(registry.definitions) :
                          registry.definitions[i].id = id]>>]
    ELSE [ok |-> FALSE, value |-> Null]

getByCategory(registry, category) ==
  IF categoryEntry(registry, category) # 0
    THEN registry.categories[categoryEntry(registry, category)].blocks
    ELSE << >>

getAll(registry) == registry.definitions

\* forEach over config.blocks: the first register that throws ends the loop
\* and leaves the definitions registered before it
RECURSIVE loadFromConfig(_, _)
loadFromConfig(registry, blocks) ==
  IF blocks = << >> THEN [ok |-> TRUE, registry |-> registry]
  ELSE IF register(registry, Head(blocks)).ok
         THEN loadFromConfig(register(registry, Head(blocks)).registry,
                             Tail(blocks))
         ELSE [ok |-> FALSE, registry |-> registry]

Register(definition) ==
  /\ blockRegistry' = register(blockRegistry, definition).registry
  /\ rcall' = RegistryCall("register", <<definition>>,
                           register(blockRegistry, definition).ok, Null)

Get(id) ==
  /\ UNCHANGED blockRegistry
  /\ rcall' = RegistryCall("get", <<id>>, get(blockRegistry, id).ok,
                           get(blockRegistry, id).value)

LoadFromConfig(blocks) ==
  /\ blockRegistry' = loadFromConfig(blockRegistry, blocks).registry
  /\ rcall' = RegistryCall("loadFromConfig", blocks,
                           loadFromConfig(blockRegistry, blocks).ok, Null)

(***************************************************************************)
(* EventBus.  listeners maps an event to null, when the map has no entry   *)
(* for it, or to <<callbacks>>, the callbacks of its Set in insertion      *)
(* order.  A callback is a function that records its calls, as the mock    *)
(* functions of the bus tests do.  ecall is the record of the most recent  *)
(* call: the operation, the event, the callback or the arguments given,    *)
(* and the calls the callbacks received, <<callback, args>>, in order.     *)
(***************************************************************************)
Events == {"eventA", "eventB"}

Callbacks == {"cb1", "cb2", "cb3"}

NoBusCall ==
  [op |-> "none", event |-> "", arg |-> << >>, invoked |-> << >>,
   depth |-> << >>]

BusCall(op, event, arg, invoked, depth) ==
  [op |-> op, event |-> event, arg |-> arg, invoked |-> invoked,
   depth |-> depth]

NewListeners == [e \in Events |-> Null]

\* Set.add: a member keeps its place, a new one goes last
SetAdd(members, callback) ==
  IF \E k \in 1 .. Len(members) : members[k] = callback
    THEN members ELSE Append(members, callback)

\* Set.delete
SetDelete(members, callback) ==
  SelectSeq(members, LAMBDA member : member # callback)

on(ls, event, callback) ==
  [ls EXCEPT ![event] =
     <<SetAdd(IF ls[event] = Null THEN << >> ELSE ls[event][1], callback)>>]

\* an off that empties the Set of the event
off_clear(ls, event, callback) ==
  IF ls[event] = Null THEN ls ELSE [ls EXCEPT ![event] = << << >> >>]

off(ls, event, callback) ==
  IF ls[event] = Null THEN ls
  ELSE [ls EXCEPT ![event] = <<SetDelete(ls[event][1], callback)>>]

\* Callbacks that use the bus when they are called: adder registers late
\* on eventA, remover unregisters victim from eventA, nested emits eventB.
\* Every other callback returns at once.
BusyCallbacks == {"adder", "remover", "nested"}

InnerArgs == <<"inner">>

RECURSIVE emit(_, _, _, _)
RECURSIVE emitFrom(_, _, _, _, _, _)

\* cb(...args): run is the bus and the record of the calls made so far,
\* with the nesting depth of the emit that made each of them
invoke(run, callback, args, d) ==
  LET called == [run EXCEPT !.invoked = Append(@, <<callback, args>>),
                            !.depth = Append(@, d)]
  IN  CASE callback = "adder" ->
             [called EXCEPT !.listeners = on(@, "eventA", "late")]
        [] callback = "remover" ->
             [called EXCEPT !.listeners = off(@, "eventA", "victim")]
        [] callback = "nested" -> emit(called, "eventB", InnerArgs, d + 1)
        [] OTHER -> called

\* a forEach that passes over the callbacks that are no longer registered
emitFrom_skipRemoved(run, event, copy, k, args, d) ==
  IF k > Len(copy) THEN run
  ELSE IF \A j \in 1 .. Len(run.listeners[event][1]) :
            run.listeners[event][1][j] # copy[k]
    THEN emitFrom(run, event, copy, k + 1, args, d)
  ELSE emitFrom(invoke(run, copy[k], args, d), event, copy, k + 1, args, d)

\* the forEach over the copy of the Set, from its k-th member on
emitFrom(run, event, copy, k, args, d) ==
  IF k > Len(copy) THEN run
  ELSE emitFrom(invoke(run, copy[k], args, d), event, copy, k + 1, args, d)

\* emit: Array.from(eventListeners) is taken when emit starts
emit(run, event, args, d) ==
  IF run.listeners[event] = Null THEN run
  ELSE emitFrom(run, event, run.listeners[event][1], 1, args, d)

On(event, callback) ==
  /\ listeners' = on(listeners, event, callback)
  /\ ecall' = BusCall("on", event, <<callback>>, << >>, << >>)

Off(event, callback) ==
  /\ listeners' = off(listeners, event, callback)
  /\ ecall' = BusCall("off", event, <<callback>>, << >>, << >>)

Emit(event, args) ==
  LET run == emit([listeners |-> listeners, invoked |-> << >>,
                   depth |-> << >>], event, args, 0)
  IN  /\ listeners' = run.listeners
      /\ ecall' = BusCall("emit", event, args, run.invoked, run.depth)

\* the definitions of the store, as index.ts loads them into the registry
\* before the store is built
sampleBlocks ==
  << [id |-> "filter", category |-> "Transform", name |-> "filter",
      parameters |-> definitions.filter],
     [id |-> "log", category |-> "Output", name |-> "log",
      parameters |-> definitions.log] >>

(***************************************************************************)
(* The registry with the definitions of the store loaded, and the store,   *)
(* the DragManager and the host bridges after construction; the            *)
(* ghost and the drop indicator are registered hidden, nothing is          *)
(* persisted.                                                              *)
(***************************************************************************)
Init ==
  /\ columns = [c \in Cols |-> << >>]
  /\ blockElements = << >>
  /\ nextInstanceId = 1
  /\ issuedIds = {}
  /\ last = NoCall
  /\ currentDrag = Null
  /\ ghostEl = "none"
  /\ dropIndicatorEl = "none"
  /\ dragBlockElements = << >>
  /\ dcall = NoDragCall
  /\ localStorage = Null
  /\ webBridge = NewBridge
  /\ vscodeState = Null
  /\ vscodeBridge = NewBridge
  /\ hcall = NoHostCall
  /\ blockRegistry = loadFromConfig(NewRegistry, sampleBlocks).registry
  /\ rcall = NoRegistryCall
  /\ listeners = NewListeners
  /\ ecall = NoBusCall

\* a call that reaches no host bridge
OthersIdle ==
  /\ UNCHANGED hostVars
  /\ hcall' = NoHostCall
  /\ UNCHANGED <<blockRegistry, listeners>>
  /\ rcall' = NoRegistryCall
  /\ ecall' = NoBusCall

\* a call made on the store directly, not through the DragManager
Direct == UNCHANGED dragVars /\ dcall' = NoDragCall /\ OthersIdle

(***************************************************************************)
(* Spec: the structural operations (insert, remove, relocate, duplicate)   *)
(* called with a registered definition, the id of a block of the workspace *)
(* and column and order arguments in range: column in [0, columnCount) and *)
(* order in [0, length of the column].  A call that needs a new id is made *)
(* while ids are left below the bound.                                     *)
(***************************************************************************)
Insert ==
  /\ Direct
  /\ nextInstanceId <= MaxIds
  /\ \E d \in DefinitionIds, c \in Cols :
       \E k \in 0 .. Len(columns[c]) : AddBlock(d, c, k)

Remove ==
  /\ Direct
  /\ \E id \in BlockIds(columns) : RemoveBlock(id)

Relocate ==
  /\ Direct
  /\ \E id \in BlockIds(columns), c \in Cols :
       \E k \in 0 .. Len(columns[c]) : MoveBlock(id, c, k)

Duplicate ==
  /\ Direct
  /\ nextInstanceId <= MaxIds
  /\ \E id \in BlockIds(columns) : CopyBlock(id)

Next == Insert \/ Remove \/ Relocate \/ Duplicate

Spec == Init /\ [][Next]_vars

(***************************************************************************)
(* SpecAny: the calls of Spec and moveBlock called with a toColumn that is *)
(* not the index of a column of the workspace.                             *)
(***************************************************************************)
NoSuchColumn == config.columnCount

StrayRelocate ==
  /\ Direct
  /\ \E id \in BlockIds(columns) : MoveBlock(id, NoSuchColumn, 0)

NextAny == Insert \/ Remove \/ Relocate \/ Duplicate \/ StrayRelocate

SpecAny == Init /\ [][NextAny]_vars

(***************************************************************************)
(* SpecInsert: the calls of Spec and addBlock called with an order index   *)
(* that is not a slot of the column: below zero, or above its length.      *)
(***************************************************************************)
StrayOrders(blocks) == {-2, -1, Len(blocks) + 1, Len(blocks) + 2}

StrayInsert ==
  /\ Direct
  /\ nextInstanceId <= MaxIds
  /\ \E d \in DefinitionIds, c \in Cols :
       \E k \in StrayOrders(columns[c]) : AddBlock(d, c, k)

NextInsert == Insert \/ Remove \/ Relocate \/ Duplicate \/ StrayInsert

SpecInsert == Init /\ [][NextInsert]_vars

(***************************************************************************)
(* SpecStore: every operation of the store, parameter edits and failing    *)
(* lookups included.  An instance id is the id of a block of the workspace *)
(* or NoSuchId, an id no block carries, for which every lookup fails as it *)
(* does for the id of a removed block.  updateParameter is called with the *)
(* parameter id "field", which 'filter' declares and 'log' does not.       *)
(***************************************************************************)
NoSuchId == 0

InstanceIds == BlockIds(columns) \cup {NoSuchId}

ParamIdInputs == {"field"}

ValueInputs == {"NaN"}

CallAddBlock ==
  /\ Direct
  /\ nextInstanceId <= MaxStoreIds
  /\ \/ \E d \in DefinitionIds, c \in Cols :
          \E k \in 0 .. Len(columns[c]) : AddBlock(d, c, k)
     \/ AddBlock(UnknownDefinitionId, 0, 0)

CallRemoveBlock ==
  /\ Direct
  /\ \E id \in InstanceIds : RemoveBlock(id)

CallMoveBlock ==
  /\ Direct
  /\ \/ \E id \in BlockIds(columns), c \in Cols :
          \E k \in 0 .. Len(columns[c]) : MoveBlock(id, c, k)
     \/ MoveBlock(NoSuchId, 0, 0)

CallCopyBlock ==
  /\ Direct
  /\ \E id \in InstanceIds :
       /\ HasBlock(columns, id) => nextInstanceId <= MaxStoreIds
       /\ CopyBlock(id)

CallUpdateParameter ==
  /\ Direct
  /\ \E id \in InstanceIds, p \in ParamIdInputs, v \in ValueInputs :
       UpdateParameter(id, p, v)

CallGetBlock ==
  /\ Direct
  /\ \E id \in InstanceIds : GetBlock(id)

NextStore ==
  \/ CallAddBlock
  \/ CallRemoveBlock
  \/ CallMoveBlock
  \/ CallCopyBlock
  \/ CallUpdateParameter
  \/ CallGetBlock

SpecStore == Init /\ [][NextStore]_vars

(***************************************************************************)
(* SpecDrag: the DragManager on a store that is also called directly, as   *)
(* the buttons of a block and a test do: addBlock with arguments in range, *)
(* removeBlock of a block of the workspace, and registerBlockElement of    *)
(* the DragManager for a block it does not know yet.  A drag starts at     *)
(* StartX, StartY; the pointer moves to a position left of the canvas,     *)
(* inside column 0 or inside column 1, above the first block, between the  *)
(* midpoints of the first two blocks or below every block.                 *)
(***************************************************************************)
StartX == 100

StartY == 200

DragXInputs == {5, 100, 400}

DragYInputs == {50, 120, 300}

DragInsert ==
  /\ Direct
  /\ nextInstanceId <= MaxDragIds
  /\ \E d \in DefinitionIds, c \in Cols :
       \E k \in 0 .. Len(columns[c]) : AddBlock(d, c, k)

DragRegister ==
  /\ OthersIdle
  /\ \E id \in BlockIds(columns) \ DOMAIN dragBlockElements :
    RegisterDragBlockElement(id)

PaletteDragStart ==
  /\ OthersIdle
  /\ \E d \in DefinitionIds \cup {UnknownDefinitionId} :
       StartPaletteDrag(d, StartX, StartY)

CanvasDragStart ==
  /\ OthersIdle
  /\ \E id \in InstanceIds : StartCanvasDrag(id, StartX, StartY)

DragMove ==
  /\ OthersIdle
  /\ \E x \in DragXInputs, y \in DragYInputs : UpdateDrag(x, y)

\* mouseup; a palette drop needs an id below the bound
DragEnd ==
  /\ (isDragging /\ currentDrag[1].source = "palette"
        /\ currentDrag[1].currentDropTarget # Null)
       => nextInstanceId <= MaxDragIds
  /\ OthersIdle
  /\ EndDrag

DragCancel == OthersIdle /\ CancelDrag

NextDrag ==
  \/ DragInsert
  \/ Remove
  \/ DragRegister
  \/ PaletteDragStart
  \/ CanvasDragStart
  \/ DragMove
  \/ DragEnd
  \/ DragCancel

SpecDrag == Init /\ [][NextDrag]_vars

(***************************************************************************)
(* Helpers of the properties.                                              *)
(***************************************************************************)
IdsOf(blocks) == [i \in 1 .. Len(blocks) |-> blocks[i].id]

\* the ids of blocks, in order, without instanceId
RECURSIVE IdsWithout(_, _)
IdsWithout(blocks, instanceId) ==
  IF blocks = << >> THEN << >>
  ELSE IF Head(blocks).id = instanceId
    THEN IdsWithout(Tail(blocks), instanceId)
    ELSE <<Head(blocks).id>> \o IdsWithout(Tail(blocks), instanceId)

\* block a sits directly above block b in blocks
ImmediatelyBefore(blocks, a, b) ==
  \E i \in 1 .. (Len(blocks) - 1) : blocks[i].id = a /\ blocks[i + 1].id = b

IsLast(blocks, a) == blocks # << >> /\ blocks[Len(blocks)].id = a

AllBlocks(cols) == UNION { { cols[c][i] : i \in 1 .. Len(cols[c]) } : c \in Cols }

Did(op) == last.op = op /\ last.ok

(***************************************************************************)
(* C1: after any sequence of addBlock / removeBlock / moveBlock /          *)
(* copyBlock calls with column and order arguments in range, the block at  *)
(* position i of column c has orderIndex = i and columnIndex = c.          *)
(***************************************************************************)
C1_IndexInvariant ==
  \A c \in Cols : \A i \in 1 .. Len(columns[c]) :
    /\ columns[c][i].orderIndex = i - 1
    /\ columns[c][i].columnIndex = c

\* a block has been inserted between two others
C1_Witness ==
  /\ Did("addBlock")
  /\ last.ord = 1
  /\ Len(columns[last.col]) = 3

(***************************************************************************)
(* C2: every id returned by addBlock or copyBlock differs from every id    *)
(* the store produced before, ids of removed blocks included, and the ids  *)
(* present in the workspace are pairwise distinct.                         *)
(***************************************************************************)
IdsDistinct ==
  \A c \in Cols, d \in Cols :
    \A i \in 1 .. Len(columns[c]), j \in 1 .. Len(columns[d]) :
      columns[c][i].id = columns[d][j].id => (c = d /\ i = j)

ReturnsFreshId ==
  (last'.ok /\ last'.op \in {"addBlock", "copyBlock"})
    => /\ last'.newId \notin issuedIds
       /\ last'.newId \notin BlockIds(columns)
       /\ last'.newId \in BlockIds(columns')

C2_IdsNeverReused == [] IdsDistinct /\ [][ReturnsFreshId]_vars

\* an id has been handed out after an earlier block was removed
C2_Witness ==
  /\ last.ok /\ last.op \in {"addBlock", "copyBlock"}
  /\ last.newId > Cardinality(BlockIds(columns))

(***************************************************************************)
(* C3: after any sequence of addBlock / removeBlock / moveBlock /          *)
(* copyBlock calls, the key set of blockElements equals the set of ids of  *)
(* the blocks in the model.                                                *)
(***************************************************************************)
C3_HandlesMatchBlocks == DOMAIN blockElements = BlockIds(columns)

(***************************************************************************)
(* C4 (as amended): moveBlock(id, toColumn, toOrder), toOrder in [0,       *)
(* length of the target column], with the block at index f of its source   *)
(* column, leaves the block at index toOrder-1 of the target column when   *)
(* toColumn is the source column and toOrder > f, otherwise at index       *)
(* toOrder.  Unless toColumn is the source column and toOrder = f, it ends *)
(* immediately before the block that occupied index toOrder of the target  *)
(* column before the call (last when toOrder = length); when toColumn is   *)
(* the source column and toOrder = f it stays where it was.  All other     *)
(* blocks keep their relative order and columns other than source and      *)
(* target are unchanged.                                                   *)
(***************************************************************************)
MoveLandsAtIndex(id, fromColumn, f, toColumn, toOrder) ==
  /\ ColumnOf(columns', id) = toColumn
  /\ FindIndex(columns'[toColumn], id) =
       IF toColumn = fromColumn /\ toOrder > f THEN toOrder - 1 ELSE toOrder

MoveLandsBefore(id, toColumn, toOrder) ==
  IF toOrder = Len(columns[toColumn])
    THEN IsLast(columns'[toColumn], id)
    ELSE ImmediatelyBefore(columns'[toColumn], id,
                           columns[toColumn][toOrder + 1].id)

MoveKeepsOthers(id, fromColumn, toColumn) ==
  /\ \A c \in Cols : IdsWithout(columns'[c], id) = IdsWithout(columns[c], id)
  /\ \A c \in Cols \ {fromColumn, toColumn} : columns'[c] = columns[c]

MovePlacement ==
  (last'.ok /\ last'.op = "moveBlock") =>
    LET id == last'.id
        fromColumn == ColumnOf(columns, id)
        f == FindIndex(columns[fromColumn], id)
        toColumn == last'.col
        toOrder == last'.ord
    IN  /\ MoveLandsAtIndex(id, fromColumn, f, toColumn, toOrder)
        /\ IF toColumn = fromColumn /\ toOrder = f
             THEN columns' = columns
             ELSE MoveLandsBefore(id, toColumn, toOrder)
        /\ MoveKeepsOthers(id, fromColumn, toColumn)

C4_MovePlacement == [][MovePlacement]_vars

\* a block has been moved down its own column to above another block
C4_Witness ==
  /\ Did("moveBlock")
  /\ last.fromIdx >= 0
  /\ last.ord < Len(columns[last.col])
  /\ FindIndex(columns[last.col], last.id) = last.ord - 1

\* C4 as stated: the block always ends immediately before the block that
\* occupied index toOrder of the target column
MovePlacementAsStated ==
  (last'.ok /\ last'.op = "moveBlock") =>
    LET id == last'.id
        fromColumn == ColumnOf(columns, id)
        f == FindIndex(columns[fromColumn], id)
        toColumn == last'.col
        toOrder == last'.ord
    IN  /\ MoveLandsAtIndex(id, fromColumn, f, toColumn, toOrder)
        /\ MoveLandsBefore(id, toColumn, toOrder)
        /\ MoveKeepsOthers(id, fromColumn, toColumn)

C4_AsStated == [][MovePlacementAsStated]_vars

(***************************************************************************)
(* C5 (as amended): a same-column moveBlock with fromIndex + 2 <= toOrder  *)
(* <= length of the column lands the block immediately after the block     *)
(* that occupied index toOrder - 1 before the move; that block is the      *)
(* moved block's former immediate successor exactly when toOrder =         *)
(* fromIndex + 2.                                                          *)
(***************************************************************************)
MovedPast ==
  /\ last'.ok /\ last'.op = "moveBlock"
  /\ last'.fromIdx >= 0
  /\ last'.ord >= last'.fromIdx + 2

MoveDownLanding ==
  MovedPast =>
    LET blocks == columns[last'.col]
        predecessor == blocks[last'.ord].id        \* index toOrder - 1
        successor == blocks[last'.fromIdx + 2].id  \* index fromIndex + 1
    IN  /\ ImmediatelyBefore(columns'[last'.col], predecessor, last'.id)
        /\ (predecessor = successor) <=> (last'.ord = last'.fromIdx + 2)

C5_MoveDownLanding == [][MoveDownLanding]_vars

\* a block has been moved down past two blocks of its column
C5_Witness ==
  /\ Did("moveBlock")
  /\ last.fromIdx >= 0
  /\ last.ord >= last.fromIdx + 3
  /\ FindIndex(columns[last.col], last.id) = last.ord - 1

\* C5 as stated: the block lands immediately after its former successor
MoveDownAsStated ==
  MovedPast =>
    ImmediatelyBefore(columns'[last'.col],
                      columns[last'.col][last'.fromIdx + 2].id, last'.id)

C5_AsStated == [][MoveDownAsStated]_vars

(***************************************************************************)
(* C6: copyBlock(id) adds exactly one block, directly below the source in  *)
(* the source's column, with a fresh id and the source's definitionId; the *)
(* source stays at its index, the blocks that were below it shift down by  *)
(* one, and every other column is unchanged.                               *)
(***************************************************************************)
CopyPlacement ==
  (last'.ok /\ last'.op = "copyBlock") =>
    LET c == ColumnOf(columns, last'.id)
        f == FindIndex(columns[c], last'.id)
        old == columns[c]
        new == columns'[c]
    IN  /\ Len(new) = Len(old) + 1
        /\ BlockIds(columns') = BlockIds(columns) \cup {last'.newId}
        /\ last'.newId \notin BlockIds(columns)
        /\ last'.newId \notin issuedIds
        /\ new[f + 2].id = last'.newId
        /\ new[f + 2].orderIndex = old[f + 1].orderIndex + 1
        /\ new[f + 2].columnIndex = c
        /\ new[f + 2].definitionId = old[f + 1].definitionId
        /\ \A i \in 1 .. (f + 1) : new[i] = old[i]
        /\ \A i \in (f + 2) .. Len(old) :
             new[i + 1] = [old[i] EXCEPT !.orderIndex = @ + 1]
        /\ \A d \in Cols \ {c} : columns'[d] = columns[d]

C6_CopyPlacement == [][CopyPlacement]_vars

\* the first of two blocks of a column has been copied
C6_Witness ==
  /\ Did("copyBlock")
  /\ \E c \in Cols :
       /\ Len(columns[c]) = 3
       /\ columns[c][1].id = last.id
       /\ columns[c][2].id = last.newId

(***************************************************************************)
(* C7: the copy made by copyBlock has parameterValues equal by value to    *)
(* the source's at the moment of the call, and a later updateParameter on  *)
(* one block changes the parameterValues of no other block.                *)
(***************************************************************************)
CopyEqualAndIndependent ==
  /\ (last'.ok /\ last'.op = "copyBlock")
       => getBlock(columns', last'.newId).parameterValues
            = getBlock(columns, last'.id).parameterValues
  /\ (last'.ok /\ last'.op = "updateParameter")
       => \A b \in BlockIds(columns) \ {last'.id} :
            getBlock(columns', b).parameterValues
              = getBlock(columns, b).parameterValues

C7_CopyEqualAndIndependent == [][CopyEqualAndIndependent]_vars

(***************************************************************************)
(* C8: the block made by addBlock(definitionId, c, k) has parameterValues  *)
(* whose key set is exactly the parameter ids of the definition, each      *)
(* mapped to that parameter's defaultValue, and sits at index k of column  *)
(* c.                                                                      *)
(***************************************************************************)
AddResult ==
  (last'.ok /\ last'.op = "addBlock") =>
    LET block == columns'[last'.col][last'.ord + 1]
        params == RegistryGet(last'.def)
    IN  /\ block.id = last'.newId
        /\ block.definitionId = last'.def
        /\ DOMAIN block.parameterValues = { params[i].id : i \in DOMAIN params }
        /\ \A i \in DOMAIN params :
             block.parameterValues[params[i].id] = params[i].defaultValue

C8_AddResult == [][AddResult]_vars

\* a 'filter' block has been inserted above an existing block
C8_Witness ==
  /\ Did("addBlock")
  /\ last.def = "filter"
  /\ last.ord = 0
  /\ Len(columns[last.col]) >= 2

(***************************************************************************)
(* C9 (as amended): addBlock, removeBlock, moveBlock, copyBlock, getBlock  *)
(* and updateParameter with a paramId that the block's definition declares *)
(* keep the key set of every block's parameterValues a subset of the       *)
(* parameter ids of the block's definition; updateParameter with any other *)
(* paramId adds that key to the block's parameterValues.                   *)
(***************************************************************************)
KeysDeclared(cols) ==
  \A b \in AllBlocks(cols) :
    DOMAIN b.parameterValues \subseteq ParameterIdsOf(b.definitionId)

UndeclaredUpdate ==
  /\ last'.ok /\ last'.op = "updateParameter"
  /\ last'.pid \notin ParameterIdsOf(getBlock(columns', last'.id).definitionId)

KeysStayDeclared ==
  /\ (KeysDeclared(columns) /\ ~UndeclaredUpdate) => KeysDeclared(columns')
  /\ UndeclaredUpdate
       => last'.pid \in DOMAIN getBlock(columns', last'.id).parameterValues

C9_KeysStayDeclared == [][KeysStayDeclared]_vars

\* a declared parameter of a 'filter' block has been edited
C9_Witness ==
  /\ Did("updateParameter")
  /\ getBlock(columns, last.id).definitionId = "filter"
  /\ getBlock(columns, last.id).parameterValues[last.pid] = "NaN"
  /\ KeysDeclared(columns)

\* C9 as stated: the subset property holds after every operation
C9_AsStated == KeysDeclared(columns)

(***************************************************************************)
(* C10: removeBlock, moveBlock, copyBlock, updateParameter and getBlock    *)
(* with an instance id not in the workspace, and addBlock with a           *)
(* definition id not in the registry, throw, leave every column's block    *)
(* list, every block's fields and the view-handle table unchanged, and     *)
(* emit no 'workspace:changed' notification.                               *)
(***************************************************************************)
FailedLookupCall ==
  \/ AddBlock(UnknownDefinitionId, 0, 0)
  \/ RemoveBlock(NoSuchId)
  \/ MoveBlock(NoSuchId, 0, 0)
  \/ CopyBlock(NoSuchId)
  \/ \E p \in ParamIdInputs, v \in ValueInputs : UpdateParameter(NoSuchId, p, v)
  \/ GetBlock(NoSuchId)

FailedLookupIsInert ==
  FailedLookupCall =>
    /\ ~last'.ok
    /\ last'.emits = 0
    /\ columns' = columns
    /\ blockElements' = blockElements

C10_FailedLookupIsInert == [][FailedLookupIsInert]_vars

\* moveBlock has thrown on a workspace that holds blocks in both columns
C10_Witness ==
  /\ ~last.ok
  /\ last.op = "moveBlock"
  /\ \A c \in Cols : columns[c] # << >>

(***************************************************************************)
(* C11: each successful addBlock, removeBlock, moveBlock, copyBlock and    *)
(* updateParameter call emits 'workspace:changed' exactly once, and only   *)
(* after the model change of that call has been applied.                   *)
(***************************************************************************)
Mutations ==
  {"addBlock", "removeBlock", "moveBlock", "copyBlock", "updateParameter"}

C11_EmitsOnceWhenDone ==
  (last.ok /\ last.op \in Mutations) => (last.emits = 1 /\ ~last.early)

(***************************************************************************)
(* SpecHit: the hit test of the LayoutEngine.  A workspace is built while  *)
(* no drag is active; a palette drag is started on it and its first        *)
(* updateDrag carries one of the mouse positions below, which include both *)
(* edges of every column, the gap and the midpoint of every block the      *)
(* column can hold at its first three places; the drag is then cancelled.   *)
(***************************************************************************)
HitXInputs ==
  {-3, 0, 19, 20, 21, 160, 299, 300, 301, 308, 315, 316, 317, 595, 596, 597,
   611, 612, 613, 900}

HitYInputs ==
  {-5, 0, 76, 77, 78, 108, 109, 110, 132, 133, 134, 164, 165, 166, 189, 196,
   197, 198, 221, 228, 229, 230, 253, 285, 317, 349, 1000}

HitInsert ==
  /\ ~isDragging
  /\ Direct
  /\ nextInstanceId <= MaxHitIds
  /\ \E d \in DefinitionIds, c \in Cols :
       \E k \in 0 .. Len(columns[c]) : AddBlock(d, c, k)

HitStart ==
  /\ OthersIdle
  /\ ~isDragging
  /\ StartPaletteDrag("filter", StartX, StartY)

HitMove ==
  /\ OthersIdle
  /\ dcall.op = "startPaletteDrag"
  /\ \E x \in HitXInputs, y \in HitYInputs : UpdateDrag(x, y)

HitCancel ==
  /\ OthersIdle
  /\ dcall.op = "updateDrag"
  /\ CancelDrag

NextHit ==
  \/ HitInsert
  \/ HitStart
  \/ HitMove
  \/ HitCancel

SpecHit == Init /\ [][NextHit]_vars

(***************************************************************************)
(* SpecCommit: the DragManager over a workspace of up to MaxCommitIds      *)
(* blocks, so that a drop lands among other blocks and the buttons of a    *)
(* block can change the column between the last mouse move and the drop.   *)
(***************************************************************************)
CommitInsert ==
  /\ Direct
  /\ nextInstanceId <= MaxCommitIds
  /\ \E d \in DefinitionIds, c \in Cols :
       \E k \in 0 .. Len(columns[c]) : AddBlock(d, c, k)

\* mouseup; a palette drop needs an id below the bound
CommitEnd ==
  /\ (isDragging /\ currentDrag[1].source = "palette"
        /\ currentDrag[1].currentDropTarget # Null)
       => nextInstanceId <= MaxCommitIds
  /\ OthersIdle
  /\ EndDrag

NextCommit ==
  \/ CommitInsert
  \/ Remove
  \/ PaletteDragStart
  \/ CanvasDragStart
  \/ DragMove
  \/ CommitEnd
  \/ DragCancel

SpecCommit == Init /\ [][NextCommit]_vars

(***************************************************************************)
(* SpecHost: the SerializationService and the two host bridges.  The       *)
(* workspaces sent are the workspace of the bridge tests, the same with a  *)
(* second block below the first, and the same with NaN as the value of its *)
(* parameter.  The texts read are the texts serialize writes for them and *)
(* the texts of the deserialize tests: a                                   *)
(* text that is not JSON, a document of version 99, a document with a      *)
(* block of an unregistered definition, and a document of version 1        *)
(* without config and columns.  Any of these texts can be found in         *)
(* localStorage or in the webview state, left there by another writer, and *)
(* can arrive as the payload of a message.                                 *)
(***************************************************************************)
fixtureBlock ==
  [id |-> 1, definitionId |-> "filter", columnIndex |-> 0, orderIndex |-> 0,
   parameterValues |-> [field |-> "name"]]

secondBlock ==
  [id |-> 2, definitionId |-> "log", columnIndex |-> 0, orderIndex |-> 1,
   parameterValues |-> << >>]

makeWorkspace(blocks) ==
  [columns |-> [c \in Cols |-> IF c = 0 THEN blocks ELSE << >>],
   config |-> config]

HostWorkspaces ==
  { makeWorkspace(<<fixtureBlock>>),
    makeWorkspace(<<fixtureBlock, secondBlock>>),
    makeWorkspace(<<[fixtureBlock EXCEPT !.parameterValues.field = "NaN"]>>) }

UnsupportedVersionText ==
  JsonText([version |-> 99, config |-> << >>, columns |-> << >>])

UnknownDefinitionText ==
  JsonText([version |-> SUPPORTED_VERSION, config |-> config,
            columns |-> << <<[id |-> 1, definitionId |-> UnknownDefinitionId,
                              parameterValues |-> << >>]>> >>])

IncompleteText == JsonText([version |-> SUPPORTED_VERSION])

BadTexts ==
  {NotJson, UnsupportedVersionText, UnknownDefinitionText, IncompleteText}

HostTexts == { serialize(w) : w \in HostWorkspaces } \cup BadTexts

MessageTypes == {"load", "config", "other"}

\* a call or an event that reaches neither the store nor the DragManager
HostOnly ==
  /\ UNCHANGED <<storeVars, dragVars>>
  /\ last' = NoCall
  /\ dcall' = NoDragCall
  /\ UNCHANGED <<blockRegistry, listeners>>
  /\ rcall' = NoRegistryCall
  /\ ecall' = NoBusCall

\* localStorage written by another writer
StorageWritten ==
  \E json \in HostTexts :
    /\ localStorage' = <<json>>
    /\ UNCHANGED <<webBridge, vscodeState, vscodeBridge>>
    /\ hcall' = NoHostCall

\* webview state left by another writer
StateRestored ==
  \E json \in HostTexts :
    /\ vscodeState' = <<json>>
    /\ UNCHANGED <<localStorage, webBridge, vscodeBridge>>
    /\ hcall' = NoHostCall

NextHost ==
  \/ HostOnly /\ \E json \in HostTexts : Deserialize(json)
  \/ HostOnly /\ StorageWritten
  \/ HostOnly /\ StateRestored
  \/ HostOnly /\ \E w \in HostWorkspaces : WebSendState(w)
  \/ HostOnly /\ WebOnLoadState
  \/ HostOnly /\ WebRequestSave
  \/ HostOnly /\ WebRequestLoad
  \/ HostOnly /\ \E w \in HostWorkspaces : VSCodeSendState(w)
  \/ HostOnly /\ VSCodeOnLoadState
  \/ HostOnly /\ VSCodeRequestSave
  \/ HostOnly /\ VSCodeRequestLoad
  \/ HostOnly /\ \E type \in MessageTypes, json \in HostTexts :
                   VSCodeMessage(type, json)

SpecHost == Init /\ [][NextHost]_vars

(***************************************************************************)
(* SpecRegistry: the BlockRegistry on its own.  The definitions registered *)
(* are those makeBlock builds for three ids in two categories, one by one  *)
(* or as the blocks of a configuration of at most two; get is called for   *)
(* the ids registered at the start, for these ids and for an id that is    *)
(* never registered.                                                       *)
(***************************************************************************)
makeBlock(id, category) ==
  [id |-> id, category |-> category, name |-> id, parameters |-> << >>]

RegistryCategories == {"Transform", "Output"}

RegistryInputs ==
  { makeBlock(id, category) :
      id \in {"filter", "sort", "map"}, category \in RegistryCategories }

RegistryIds == {"filter", "log", "sort", "map", UnknownDefinitionId}

ConfigInputs ==
  {<< >>} \cup { <<d>> : d \in RegistryInputs }
          \cup { <<d, e>> : d \in RegistryInputs, e \in RegistryInputs }

\* a call that reaches only the registry
RegistryOnly ==
  /\ UNCHANGED <<storeVars, dragVars, hostVars, listeners>>
  /\ last' = NoCall
  /\ dcall' = NoDragCall
  /\ hcall' = NoHostCall
  /\ ecall' = NoBusCall

NextRegistry ==
  \/ RegistryOnly /\ \E d \in RegistryInputs : Register(d)
  \/ RegistryOnly /\ \E id \in RegistryIds : Get(id)
  \/ RegistryOnly /\ \E blocks \in ConfigInputs : LoadFromConfig(blocks)

SpecRegistry == Init /\ [][NextRegistry]_vars

(***************************************************************************)
(* SpecBus: the EventBus on its own, with three callbacks, two events and  *)
(* the argument lists of the bus tests.                                    *)
(***************************************************************************)
EmitArgs == {<< >>, <<"data">>, <<"arg1", 42>>}

\* a call that reaches only the bus
BusOnly ==
  /\ UNCHANGED <<storeVars, dragVars, hostVars, blockRegistry>>
  /\ last' = NoCall
  /\ dcall' = NoDragCall
  /\ hcall' = NoHostCall
  /\ rcall' = NoRegistryCall

NextBus ==
  \/ BusOnly /\ \E e \in Events, cb \in Callbacks : On(e, cb)
  \/ BusOnly /\ \E e \in Events, cb \in Callbacks : Off(e, cb)
  \/ BusOnly /\ \E e \in Events, args \in EmitArgs : Emit(e, args)

SpecBus == Init /\ [][NextBus]_vars

(***************************************************************************)
(* SpecReentrant: the EventBus with callbacks that call on, off and emit   *)
(* while an emission is running.  nested is registered on eventA only, so  *)
(* that the emission it starts does not call it again.                     *)
(***************************************************************************)
OuterCallbacks == {"adder", "remover", "nested", "victim", "late"}

InnerCallbacks == {"adder", "late"}

CallbacksOf(event) ==
  IF event = "eventA" THEN OuterCallbacks ELSE InnerCallbacks

OuterArgs == <<"data">>

NextReentrant ==
  \/ BusOnly /\ \E e \in Events : \E cb \in CallbacksOf(e) : On(e, cb)
  \/ BusOnly /\ \E e \in Events : \E cb \in CallbacksOf(e) : Off(e, cb)
  \/ BusOnly /\ \E e \in Events : Emit(e, OuterArgs)

SpecReentrant == Init /\ [][NextReentrant]_vars

(***************************************************************************)
(* SpecLoad: deserialize called with the text serialize makes of the       *)
(* workspace the store has built, and with documents of another writer:    *)
(* one whose columns array has a single column under a config of           *)
(* columnCount columns, and one in which two blocks carry the same id.     *)
(***************************************************************************)
ForeignTexts ==
  { JsonText([version |-> SUPPORTED_VERSION, config |-> config,
              columns |-> << << >> >>]),
    JsonText([version |-> SUPPORTED_VERSION, config |-> config,
              columns |->
                [k \in 1 .. config.columnCount |->
                   <<serializeBlock(fixtureBlock),
                     serializeBlock(fixtureBlock)>>]]) }

NextLoad ==
  \/ Insert
  \/ Remove
  \/ Relocate
  \/ Duplicate
  \/ HostOnly /\ Deserialize(serialize(getWorkspace))
  \/ HostOnly /\ \E json \in ForeignTexts : Deserialize(json)

SpecLoad == Init /\ [][NextLoad]_vars

(***************************************************************************)
(* Helpers of the properties of the DragManager.                           *)
(***************************************************************************)
DragDid(op) == dcall.op = op /\ dcall.ok

HasTarget == isDragging /\ currentDrag[1].currentDropTarget # Null

\* the blocks of the workspace other than instanceId are where they were
OthersInPlace(instanceId) ==
  \A c \in Cols : IdsWithout(columns'[c], instanceId)
                    = IdsWithout(columns[c], instanceId)

(***************************************************************************)
(* C12: each endDrag call causes at most one store mutation: exactly one   *)
(* addBlock when the drag came from the palette and a drop target exists,  *)
(* exactly one moveBlock when it came from the canvas and a drop target    *)
(* exists, and none when no drop target exists; never a mutation followed  *)
(* by a second, corrective one.                                            *)
(***************************************************************************)
EndDragMutatesOnce ==
  (dcall'.op = "endDrag") =>
    /\ last'.emits <= 1
    /\ nextInstanceId' <= nextInstanceId + 1
    /\ IF ~HasTarget
         THEN /\ dcall'.calls = 0
              /\ last' = NoCall
              /\ UNCHANGED storeVars
         ELSE LET drag == currentDrag[1]
                  target == drag.currentDropTarget[1]
              IN  /\ dcall'.calls = 1
                  /\ (drag.source = "palette" /\ last'.ok) =>
                       /\ last'.op = "addBlock"
                       /\ last'.def = drag.definitionId
                       /\ last'.col = target.columnIndex
                       /\ last'.ord = target.orderIndex
                       /\ last'.emits = 1
                       /\ BlockIds(columns')
                            = BlockIds(columns) \cup {last'.newId}
                       /\ OthersInPlace(last'.newId)
                  /\ (drag.source = "canvas" /\ last'.ok) =>
                       /\ last'.op = "moveBlock"
                       /\ last'.id = drag.instanceId
                       /\ last'.col = target.columnIndex
                       /\ last'.ord = target.orderIndex
                       /\ last'.emits = 1
                       /\ BlockIds(columns') = BlockIds(columns)
                       /\ OthersInPlace(drag.instanceId)
                  /\ ~last'.ok =>
                       last'.op = IF drag.source = "palette"
                                    THEN "addBlock" ELSE "moveBlock"

C12_EndDragMutatesOnce == [][EndDragMutatesOnce]_vars

\* a block dragged on the canvas has been dropped into the other column
C12_Witness ==
  /\ DragDid("endDrag")
  /\ dcall.calls = 1
  /\ last.op = "moveBlock" /\ last.ok
  /\ columns[last.col] # << >>
  /\ getBlock(columns, last.id).columnIndex = 1

(***************************************************************************)
(* C13: endDrag during a drag that has no current drop target (updateDrag  *)
(* never called, or its last call outside every column) has exactly the    *)
(* effect of cancelDrag: no store mutation, no change notification, the    *)
(* coordinator idle, ghost and drop indicator hidden, and the dragged      *)
(* block of a canvas drag visible again.                                   *)
(***************************************************************************)
EndWithoutTargetCancels ==
  (dcall'.op = "endDrag" /\ isDragging /\ ~HasTarget) =>
    /\ UNCHANGED storeVars
    /\ last' = NoCall
    /\ dcall'.ok /\ dcall'.calls = 0
    /\ currentDrag' = Null
    /\ ghostEl' = "none"
    /\ dropIndicatorEl' = "none"
    /\ DOMAIN dragBlockElements' = DOMAIN dragBlockElements
    /\ \A id \in DOMAIN dragBlockElements :
         dragBlockElements'[id] =
           IF currentDrag[1].source = "canvas"
              /\ id = currentDrag[1].instanceId
             THEN "1"
             ELSE dragBlockElements[id]

C13_EndWithoutTargetCancels == [][EndWithoutTargetCancels]_vars

\* endDrag without a target has made the block of a canvas drag visible
C13_Witness ==
  /\ DragDid("endDrag")
  /\ dcall.calls = 0
  /\ ~isDragging
  /\ \E id \in DOMAIN dragBlockElements :
       /\ dragBlockElements[id] = "1"
       /\ HasBlock(columns, id)

(***************************************************************************)
(* C14: updateDrag and cancelDrag never change the model or the table of   *)
(* view handles of the store, and updateDrag while idle changes nothing    *)
(* and does not throw.                                                     *)
(***************************************************************************)
UpdateAndCancelLeaveStore ==
  /\ (dcall'.op \in {"updateDrag", "cancelDrag"}) =>
       /\ UNCHANGED storeVars
       /\ last' = NoCall
       /\ dcall'.ok /\ dcall'.calls = 0
  /\ (dcall'.op = "updateDrag" /\ ~isDragging) => UNCHANGED dragVars

C14_UpdateAndCancelLeaveStore == [][UpdateAndCancelLeaveStore]_vars

\* updateDrag has been called while idle on a workspace that holds a block
C14_Witness ==
  /\ DragDid("updateDrag")
  /\ ~isDragging
  /\ BlockIds(columns) # {}

(***************************************************************************)
(* C15: whenever endDrag is called during a drag, the coordinator is idle  *)
(* afterwards, including when the store mutation fails, as for a canvas    *)
(* drag whose instance was removed before the commit.                      *)
(***************************************************************************)
EndDragLeavesIdle ==
  (dcall'.op = "endDrag" /\ isDragging) => ~isDragging'

C15_EndDragLeavesIdle == [][EndDragLeavesIdle]_vars

(***************************************************************************)
(* C16: a drag started while another is active never merges with it: the   *)
(* drag state then carries only the source, definitionId, instanceId and   *)
(* origin of the new drag, with a null drop target, and the superseded     *)
(* drag never causes a store mutation.                                     *)
(***************************************************************************)
StartSupersedes ==
  /\ (dcall'.op \in {"startPaletteDrag", "startCanvasDrag"}) =>
       /\ UNCHANGED storeVars
       /\ last' = NoCall
       /\ dcall'.calls = 0
  /\ (dcall'.op = "startPaletteDrag" /\ dcall'.ok) =>
       /\ isDragging'
       /\ currentDrag'[1].source = "palette"
       /\ currentDrag'[1].definitionId \in DefinitionIds
       /\ currentDrag'[1].instanceId = -1
       /\ currentDrag'[1].originColumn = -1
       /\ currentDrag'[1].originOrder = -1
       /\ currentDrag'[1].currentDropTarget = Null
  /\ (dcall'.op = "startCanvasDrag" /\ dcall'.ok) =>
       /\ isDragging'
       /\ currentDrag'[1].source = "canvas"
       /\ HasBlock(columns, currentDrag'[1].instanceId)
       /\ LET block == getBlock(columns, currentDrag'[1].instanceId)
          IN  /\ currentDrag'[1].definitionId = block.definitionId
              /\ currentDrag'[1].originColumn = block.columnIndex
              /\ currentDrag'[1].originOrder = block.orderIndex
       /\ currentDrag'[1].currentDropTarget = Null
  /\ (dcall'.op = "endDrag" /\ dcall'.calls = 1) =>
       IF currentDrag[1].source = "palette"
         THEN /\ last'.op = "addBlock"
              /\ last'.ok => last'.def = currentDrag[1].definitionId
         ELSE /\ last'.op = "moveBlock"
              /\ last'.ok => last'.id = currentDrag[1].instanceId

C16_StartSupersedes == [][StartSupersedes]_vars

\* a palette drag has replaced a canvas drag that had a drop target: the
\* drop indicator of the replaced drag is still shown, its block still hidden
C16_Witness ==
  /\ DragDid("startPaletteDrag")
  /\ isDragging
  /\ currentDrag[1].source = "palette"
  /\ currentDrag[1].currentDropTarget = Null
  /\ dropIndicatorEl = "block"
  /\ \E id \in DOMAIN dragBlockElements : dragBlockElements[id] = "0"

(***************************************************************************)
(* C17: between the start of a drag and its endDrag or cancelDrag no write *)
(* to the model takes place, by the coordinator or by any other caller.    *)
(***************************************************************************)
NoWriteDuringDrag ==
  (isDragging /\ dcall'.op \notin {"endDrag", "cancelDrag"}) =>
    columns' = columns

C17_NoWriteDuringDrag == [][NoWriteDuringDrag]_vars

(***************************************************************************)
(* Helpers of the properties of the hit test: the state after an           *)
(* updateDrag during a drag holds the mouse position, the workspace the    *)
(* hit test read and its result.                                           *)
(***************************************************************************)
Probed == DragDid("updateDrag") /\ isDragging

ProbeX == currentDrag[1].mouseX

ProbeY == currentDrag[1].mouseY

ProbeTarget == currentDrag[1].currentDropTarget

InColumn(x, c) ==
  /\ calculateColumnX(c) <= x
  /\ x <= calculateColumnX(c) + config.columnWidthPx

InGap(x, c) ==
  /\ calculateColumnX(c) + config.columnWidthPx < x
  /\ x < calculateColumnX(c) + config.columnWidthPx + COLUMN_GAP_PX

LastColumn == config.columnCount - 1

(***************************************************************************)
(* C18: getDropTarget returns null when x is less than canvasPaddingPx,    *)
(* strictly inside the 16 px gap between two columns, or right of the      *)
(* right edge of the last column; otherwise it returns a columnIndex c <   *)
(* columnCount with calculateColumnX(c) <= x <= calculateColumnX(c) +      *)
(* columnWidthPx, whatever y is.                                           *)
(***************************************************************************)
C18_ColumnHit ==
  Probed =>
    IF \/ ProbeX < config.canvasPaddingPx
       \/ \E c \in Cols : c < LastColumn /\ InGap(ProbeX, c)
       \/ ProbeX > calculateColumnX(LastColumn) + config.columnWidthPx
      THEN ProbeTarget = Null
      ELSE /\ ProbeTarget # Null
           /\ ProbeTarget[1].columnIndex \in Cols
           /\ ProbeTarget[1].columnIndex < config.columnCount
           /\ InColumn(ProbeX, ProbeTarget[1].columnIndex)

\* the mouse on the right edge of column 0, which holds a block
C18_Witness ==
  /\ Probed
  /\ ProbeX = calculateColumnX(0) + config.columnWidthPx
  /\ ProbeTarget # Null
  /\ ProbeTarget[1].columnIndex = 0
  /\ columns[0] # << >>

(***************************************************************************)
(* C19: inside a column the orderIndex returned is the index of the first  *)
(* block i with y strictly less than calculateBlockY(i) + getBlockHeight / *)
(* 2, and the length of the column when there is none; a cursor exactly on *)
(* the midpoint of a block inserts after that block.                       *)
(***************************************************************************)
BelowMidpoint(y, i, blocks) ==
  2 * y < 2 * calculateBlockY(i, blocks) + getBlockHeight(blocks[i + 1])

OnMidpoint(y, i, blocks) ==
  2 * y = 2 * calculateBlockY(i, blocks) + getBlockHeight(blocks[i + 1])

C19_FirstBlockBelow ==
  (Probed /\ ProbeTarget # Null) =>
    LET blocks == columns[ProbeTarget[1].columnIndex]
        orderIndex == ProbeTarget[1].orderIndex
        below == { i \in 0 .. (Len(blocks) - 1) :
                     BelowMidpoint(ProbeY, i, blocks) }
    IN  /\ IF below = {}
             THEN orderIndex = Len(blocks)
             ELSE /\ orderIndex \in below
                  /\ \A i \in below : orderIndex <= i
        /\ \A i \in 0 .. (Len(blocks) - 1) :
             OnMidpoint(ProbeY, i, blocks) => orderIndex = i + 1

\* the cursor exactly on the midpoint of the second of three blocks
C19_Witness ==
  /\ Probed /\ ProbeTarget # Null
  /\ LET blocks == columns[ProbeTarget[1].columnIndex]
     IN  /\ Len(blocks) = 3
         /\ OnMidpoint(ProbeY, 1, blocks)
         /\ ProbeTarget[1].orderIndex = 2

(***************************************************************************)
(* C20: every non-null result of getDropTarget has its orderIndex in       *)
(* [0, length of the column], and for an empty column it is 0 for every y. *)
(***************************************************************************)
C20_OrderIndexInRange ==
  (Probed /\ ProbeTarget # Null) =>
    LET blocks == columns[ProbeTarget[1].columnIndex]
    IN  /\ ProbeTarget[1].orderIndex \in 0 .. Len(blocks)
        /\ blocks = << >> => ProbeTarget[1].orderIndex = 0

\* the cursor far down an empty column next to a column that holds blocks
C20_Witness ==
  /\ Probed /\ ProbeTarget # Null
  /\ columns[ProbeTarget[1].columnIndex] = << >>
  /\ BlockIds(columns) # {}
  /\ ProbeY = 1000
  /\ ProbeTarget[1].orderIndex = 0

(***************************************************************************)
(* C21: calculateBlockY(0, column, config) = 35 + canvasPaddingPx, and for *)
(* every block i of the column calculateBlockY(i + 1) = calculateBlockY(i) *)
(* + (36 + 32 * parameterCount(block i) + 8) + blockGapPx; hence with      *)
(* blockGapPx >= 0 the vertical extents of the blocks of a column never    *)
(* overlap and are strictly increasing in order index.                     *)
(***************************************************************************)
parameterCount(block) == Len(RegistryGet(block.definitionId))

BlockYRecurrence(blocks) ==
  /\ calculateBlockY(0, blocks) = 35 + config.canvasPaddingPx
  /\ \A i \in 0 .. (Len(blocks) - 1) :
       calculateBlockY(i + 1, blocks)
         = calculateBlockY(i, blocks)
             + (36 + 32 * parameterCount(blocks[i + 1]) + 8)
             + config.blockGapPx

\* the extent of block i ends at or above the top of every later block
ExtentsDisjoint(blocks) ==
  \A i, j \in 0 .. (Len(blocks) - 1) :
    i < j =>
      /\ calculateBlockY(i, blocks) < calculateBlockY(j, blocks)
      /\ calculateBlockY(i, blocks) + getBlockHeight(blocks[i + 1])
           <= calculateBlockY(j, blocks)

C21_BlockYRecurrence ==
  \A c \in Cols : BlockYRecurrence(columns[c]) /\ ExtentsDisjoint(columns[c])

\* a column of three blocks of both heights
C21_Witness ==
  \E c \in Cols :
    /\ Len(columns[c]) = 3
    /\ \E i, j \in 1 .. 3 :
         parameterCount(columns[c][i]) # parameterCount(columns[c][j])

(***************************************************************************)
(* C22: after every addBlock, removeBlock, moveBlock and copyBlock, for    *)
(* every block of every column the vertical offset pushed to its view      *)
(* handle equals calculateBlockY(block.orderIndex, its column, config) for *)
(* the current model; a move between columns repositions the source and    *)
(* the target column.                                                      *)
(***************************************************************************)
PlacedAt(block, blocks) ==
  /\ block.id \in DOMAIN blockElements
  /\ ~calculateBlockYThrows(block.orderIndex, blocks)
  /\ blockElements[block.id].top = calculateBlockY(block.orderIndex, blocks)

C22_HandlesFollowLayout ==
  (last.ok /\ last.op \in {"addBlock", "removeBlock", "moveBlock", "copyBlock"})
    => \A c \in Cols :
         \A i \in 1 .. Len(columns[c]) : PlacedAt(columns[c][i], columns[c])

(***************************************************************************)
(* C23: for every workspace w that satisfies the index invariants and      *)
(* whose definition ids all resolve, deserialize(serialize(w), registry)   *)
(* equals w: same config, same number of columns, same blocks in the same  *)
(* order with the same id, definitionId and parameterValues, columnIndex   *)
(* and orderIndex equal to the position of each block; the serialized      *)
(* blocks carry no columnIndex or orderIndex.                              *)
(***************************************************************************)
WellIndexed(cols) ==
  \A c \in DOMAIN cols :
    \A i \in 1 .. Len(cols[c]) :
      cols[c][i].columnIndex = c /\ cols[c][i].orderIndex = i - 1

AllResolve(cols) ==
  \A c \in DOMAIN cols :
    \A i \in 1 .. Len(cols[c]) : RegistryHas(cols[c][i].definitionId)

SerializedWithoutIndices(json) ==
  LET data == JsonParse(json)
  IN  \A k \in 1 .. Len(data.columns) :
        \A i \in 1 .. Len(data.columns[k]) :
          DOMAIN data.columns[k][i] = {"id", "definitionId", "parameterValues"}

C23_RoundTrip ==
  (WellIndexed(columns) /\ AllResolve(columns)) =>
    /\ deserialize(serialize(getWorkspace))
         = [ok |-> TRUE, workspace |-> <<getWorkspace>>]
    /\ SerializedWithoutIndices(serialize(getWorkspace))

(***************************************************************************)
(* Helpers of the properties of the SerializationService and the host      *)
(* bridges.                                                                *)
(***************************************************************************)
IsJson(json) == json # NotJson

HasVersion1(json) ==
  /\ "version" \in DOMAIN JsonParse(json)
  /\ JsonParse(json).version = 1

\* some block of some column of the document names no registered definition
NamesUnregistered(json) ==
  /\ "columns" \in DOMAIN JsonParse(json)
  /\ \E k \in 1 .. Len(JsonParse(json).columns) :
       \E i \in 1 .. Len(JsonParse(json).columns[k]) :
         JsonParse(json).columns[k][i].definitionId \notin DefinitionIds

(***************************************************************************)
(* C24: deserialize fails and returns no workspace when the text is not    *)
(* valid JSON, when version is not 1, or when any block in any column has  *)
(* a definitionId that is not registered; it succeeds only when none of    *)
(* these holds.                                                            *)
(***************************************************************************)
C24_DeserializeFails ==
  (hcall.op = "deserialize") =>
    LET json == hcall.arg[1]
        rejected == \/ ~IsJson(json)
                    \/ ~HasVersion1(json)
                    \/ NamesUnregistered(json)
    IN  /\ rejected => (~hcall.ok /\ hcall.delivered = Null)
        /\ hcall.ok => ~rejected

\* deserialize has thrown on a version 1 document for an unregistered
\* definition
C24_Witness ==
  /\ hcall.op = "deserialize"
  /\ ~hcall.ok
  /\ hcall.arg[1] = UnknownDefinitionText

\* the text is malformed, of an unsupported version, or names an
\* unregistered definition
Rejected(json) ==
  \/ ~IsJson(json)
  \/ ~HasVersion1(json)
  \/ NamesUnregistered(json)

\* the call is a load: requestLoad of either bridge, or a 'load' message
IsLoad(call) ==
  \/ call.op \in {"web.requestLoad", "vscode.requestLoad"}
  \/ call.op = "vscode.message" /\ call.arg[1] = "load"

\* the texts the load has read: none when nothing is persisted
LoadedTexts(call) ==
  IF call.op = "vscode.message" THEN {call.arg[2]}
  ELSE {call.arg[k] : k \in 1 .. Len(call.arg)}

\* a whole workspace: the configuration and every column of the document,
\* every block with all its fields
Complete(workspace, json) ==
  /\ DOMAIN workspace = {"columns", "config"}
  /\ workspace.config = JsonParse(json).config
  /\ Len(JsonParse(json).columns) = Cardinality(DOMAIN workspace.columns)
  /\ \A c \in DOMAIN workspace.columns :
       /\ Len(workspace.columns[c]) = Len(JsonParse(json).columns[c + 1])
       /\ \A i \in 1 .. Len(workspace.columns[c]) :
            /\ DOMAIN workspace.columns[c][i] =
                 {"id", "definitionId", "columnIndex", "orderIndex",
                  "parameterValues"}
            /\ workspace.columns[c][i].id =
                 JsonParse(json).columns[c + 1][i].id

(***************************************************************************)
(* C25: a load is all-or-nothing.  The load callback is invoked only with  *)
(* the complete result of a successful deserialization; when the text read *)
(* is malformed, of an unsupported version, or names an unregistered       *)
(* definition, the callback is not invoked at all and the live workspace   *)
(* is left as it was.                                                      *)
(***************************************************************************)
C25_LoadAllOrNothing ==
  [][IsLoad(hcall') =>
       \A json \in LoadedTexts(hcall') :
         /\ \A k \in 1 .. Len(hcall'.delivered) :
              /\ ~Rejected(json)
              /\ Complete(hcall'.delivered[k], json)
         /\ Rejected(json) =>
              /\ hcall'.delivered = << >>
              /\ UNCHANGED storeVars]_vars

\* requestLoad of the web bridge, with a callback registered, has thrown on
\* a stored document of version 99
C25_Witness ==
  /\ hcall.op = "web.requestLoad"
  /\ webBridge.loadCallback
  /\ hcall.arg = <<UnsupportedVersionText>>
  /\ ~hcall.ok

(***************************************************************************)
(* Helpers of the properties of the BlockRegistry.                         *)
(***************************************************************************)
\* what the registry answers: get for every id, the category lists, getAll
SameAnswers(before, after) ==
  /\ \A id \in RegistryIds : get(after, id) = get(before, id)
  /\ \A category \in RegistryCategories :
       getByCategory(after, category) = getByCategory(before, category)
  /\ getAll(after) = getAll(before)

(***************************************************************************)
(* C26: the registry is write-once per id.  A register with an id already  *)
(* present throws and leaves the registry unchanged: get(id) still returns *)
(* the first definition, and neither the category lists nor getAll are     *)
(* extended.  Whatever register and loadFromConfig calls follow, get(id)   *)
(* returns the first definition registered for id; get of an id that is    *)
(* not registered throws.                                                  *)
(***************************************************************************)
C26_WriteOnce ==
  [][/\ (rcall'.op = "register" /\ has(blockRegistry, rcall'.arg[1].id)) =>
          /\ ~rcall'.ok
          /\ SameAnswers(blockRegistry, blockRegistry')
     /\ (rcall'.op = "register" /\ ~has(blockRegistry, rcall'.arg[1].id)) =>
          /\ rcall'.ok
          /\ get(blockRegistry', rcall'.arg[1].id).value = rcall'.arg
     /\ \A id \in RegistryIds :
          has(blockRegistry, id) =>
            get(blockRegistry', id) = get(blockRegistry, id)
     /\ (rcall'.op = "get" /\ ~has(blockRegistry, rcall'.arg[1])) =>
          (~rcall'.ok /\ rcall'.value = Null)]_vars

\* a register of 'sort' has thrown: another definition of 'sort', in the
\* other category, was registered first
C26_Witness ==
  /\ rcall.op = "register"
  /\ ~rcall.ok
  /\ rcall.arg[1].id = "sort"
  /\ get(blockRegistry, "sort").value # rcall.arg

(***************************************************************************)
(* Helpers of the properties of the EventBus.                              *)
(***************************************************************************)
\* the callbacks registered for the event and not removed since
Registered(ls, event) ==
  IF ls[event] = Null THEN {}
  ELSE {ls[event][1][k] : k \in 1 .. Len(ls[event][1])}

\* the number of calls the callback received
TimesCalled(invoked, callback) ==
  Cardinality({k \in 1 .. Len(invoked) : invoked[k][1] = callback})

(***************************************************************************)
(* C27: each emit(e, args) invokes, exactly once and with args, every      *)
(* callback registered for e with on and not removed with off, and no      *)
(* callback registered only for another event; off removes only the given  *)
(* callback; emit for an event without listeners invokes nothing.          *)
(***************************************************************************)
C27_EmitReachesRegistered ==
  [][/\ ecall'.op = "on" =>
          /\ Registered(listeners', ecall'.event) =
               Registered(listeners, ecall'.event) \cup {ecall'.arg[1]}
          /\ \A e \in Events \ {ecall'.event} :
               Registered(listeners', e) = Registered(listeners, e)
     /\ ecall'.op = "off" =>
          /\ Registered(listeners', ecall'.event) =
               Registered(listeners, ecall'.event) \ {ecall'.arg[1]}
          /\ \A e \in Events \ {ecall'.event} :
               Registered(listeners', e) = Registered(listeners, e)
     /\ ecall'.op = "emit" =>
          /\ \A cb \in Callbacks :
               TimesCalled(ecall'.invoked, cb) =
                 IF cb \in Registered(listeners, ecall'.event) THEN 1 ELSE 0
          /\ \A k \in 1 .. Len(ecall'.invoked) :
               ecall'.invoked[k][2] = ecall'.arg
          /\ \A e \in Events :
               Registered(listeners', e) = Registered(listeners, e)
          /\ (Registered(listeners, ecall'.event) = {}) =>
               ecall'.invoked = << >>]_vars

\* an emit of eventA with arguments has called cb2, the one callback
\* registered for it, and not cb1, which is registered for eventB
C27_Witness ==
  /\ ecall.op = "emit"
  /\ ecall.event = "eventA"
  /\ ecall.arg = <<"arg1", 42>>
  /\ ecall.invoked = << <<"cb2", <<"arg1", 42>> >> >>
  /\ listeners["eventA"] = << <<"cb2">> >>
  /\ "cb1" \in Registered(listeners, "eventB")

(***************************************************************************)
(* C28: WebHostBridge: after sendState(w), requestLoad() invokes the       *)
(* registered load callback exactly once with a workspace equal to w (same *)
(* config, blocks, ids and parameterValues, indices from position); when   *)
(* nothing has been persisted, requestLoad() does not invoke the callback. *)
(***************************************************************************)
C28_WebRoundTrip ==
  [][(hcall'.op = "web.requestLoad") =>
       /\ (hcall.op = "web.sendState" /\ webBridge.loadCallback) =>
            hcall'.delivered = hcall.arg
       /\ (localStorage = Null) => hcall'.delivered = << >>]_vars

(***************************************************************************)
(* Helpers of the properties of the VSCodeHostBridge.                      *)
(***************************************************************************)
\* the text deserializes: the workspace it yields, in a sequence
Deserialized(json) == deserialize(json).workspace

(***************************************************************************)
(* C29 as stated: requestLoad() delivers the persisted state of the        *)
(* webview to the load callback and posts no message when such state       *)
(* exists, and otherwise posts exactly one {type:'ready'} message and does *)
(* not invoke the callback; every incoming 'load' message invokes the      *)
(* registered callback exactly once with the deserialized payload, and     *)
(* messages of any other type never invoke it; sendState posts one 'save'  *)
(* message and stores the identical payload with setState.                 *)
(***************************************************************************)
C29_ProtocolAsStated ==
  [][/\ (hcall'.op = "vscode.requestLoad" /\ vscodeState # Null) =>
          /\ vscodeBridge.loadCallback => Len(hcall'.delivered) = 1
          /\ hcall'.posted = << >>
     /\ (hcall'.op = "vscode.requestLoad" /\ vscodeState = Null) =>
          /\ hcall'.posted = <<ReadyMessage>>
          /\ hcall'.delivered = << >>
     /\ (hcall'.op = "vscode.message" /\ hcall'.arg[1] = "load"
           /\ vscodeBridge.loadCallback) =>
          Len(hcall'.delivered) = 1
     /\ (hcall'.op = "vscode.message" /\ hcall'.arg[1] # "load") =>
          hcall'.delivered = << >>
     /\ hcall'.op = "vscode.sendState" =>
          /\ Len(hcall'.posted) = 1
          /\ hcall'.posted[1].type = "save"
          /\ vscodeState' = <<hcall'.posted[1].payload>>]_vars

\* what a load hands to the callback, if one is registered, for a text that
\* deserializes, and nothing for a text that does not
Handed(bridge, json) ==
  IF deserialize(json).ok /\ bridge.loadCallback
    THEN Deserialized(json) ELSE << >>

(***************************************************************************)
(* C29: VSCodeHostBridge protocol.  requestLoad() with persisted state     *)
(* that deserializes delivers it to the load callback exactly once and     *)
(* posts no message; with no persisted state it posts exactly one          *)
(* {type:'ready'} message and does not invoke the callback.  An incoming   *)
(* 'load' message whose payload deserializes invokes the registered        *)
(* callback exactly once with the deserialized payload; messages of any    *)
(* other type never invoke it.  Persisted state or a 'load' payload that   *)
(* does not deserialize makes the call throw: the callback is not invoked  *)
(* and no message is posted.  sendState posts one 'save' message and       *)
(* stores the identical payload with setState.                             *)
(***************************************************************************)
C29_Protocol ==
  [][/\ (hcall'.op = "vscode.requestLoad" /\ vscodeState # Null) =>
          /\ hcall'.delivered = Handed(vscodeBridge, vscodeState[1])
          /\ hcall'.posted = << >>
          /\ hcall'.ok = deserialize(vscodeState[1]).ok
     /\ (hcall'.op = "vscode.requestLoad" /\ vscodeState = Null) =>
          /\ hcall'.posted = <<ReadyMessage>>
          /\ hcall'.delivered = << >>
     /\ (hcall'.op = "vscode.message" /\ hcall'.arg[1] = "load") =>
          /\ hcall'.delivered = Handed(vscodeBridge, hcall'.arg[2])
          /\ hcall'.posted = << >>
          /\ hcall'.ok = deserialize(hcall'.arg[2]).ok
     /\ (hcall'.op = "vscode.message" /\ hcall'.arg[1] # "load") =>
          hcall'.delivered = << >>
     /\ hcall'.op = "vscode.sendState" =>
          /\ Len(hcall'.posted) = 1
          /\ hcall'.posted[1].type = "save"
          /\ vscodeState' = <<hcall'.posted[1].payload>>]_vars

\* requestLoad has delivered the persisted state of the two-block workspace
\* to the registered callback and posted nothing
C29_Witness ==
  /\ hcall.op = "vscode.requestLoad"
  /\ vscodeBridge.loadCallback
  /\ vscodeState = <<serialize(makeWorkspace(<<fixtureBlock, secondBlock>>))>>
  /\ hcall.delivered = <<makeWorkspace(<<fixtureBlock, secondBlock>>)>>
  /\ hcall.posted = << >>

(***************************************************************************)
(* Helpers of the property of the committed drop target.                   *)
(***************************************************************************)
\* every updateDrag of a drag replaces the drop target by the one it
\* computes for its own mouse position
UpdateSetsTarget ==
  (dcall'.op = "updateDrag" /\ isDragging) =>
    /\ isDragging'
    /\ currentDrag'[1].currentDropTarget =
         getDropTarget(currentDrag'[1].mouseX, currentDrag'[1].mouseY, columns)

\* between the updateDrag and the end of the drag nothing else writes the
\* drop target
OnlyUpdateSetsTarget ==
  (HasTarget /\ dcall'.op \notin {"updateDrag", "endDrag", "cancelDrag",
                                  "startPaletteDrag", "startCanvasDrag"}) =>
    UNCHANGED currentDrag

\* the block stands in the column of the target, at the index of the target
StandsAt(cols, block, target) ==
  /\ target.orderIndex + 1 \in DOMAIN cols[target.columnIndex]
  /\ cols[target.columnIndex][target.orderIndex + 1] = block

\* endDrag hands the current drop target to the store: the new block of a
\* palette drag stands at the target, the block of a canvas drag is moved
\* with the target, the other blocks keep their order
CommitAppliesTarget ==
  (dcall'.op = "endDrag" /\ HasTarget /\ last'.ok) =>
    LET drag == currentDrag[1]
        target == drag.currentDropTarget[1]
    IN  /\ drag.source = "palette" =>
             /\ BlockIds(columns') = BlockIds(columns) \cup {last'.newId}
             /\ last'.newId \notin BlockIds(columns)
             /\ getBlock(columns', last'.newId).definitionId
                  = drag.definitionId
             /\ StandsAt(columns', getBlock(columns', last'.newId), target)
             /\ OthersInPlace(last'.newId)
        /\ drag.source = "canvas" =>
             /\ last'.op = "moveBlock"
             /\ <<last'.id, last'.col, last'.ord>> =
                  <<drag.instanceId, target.columnIndex, target.orderIndex>>
             /\ OthersInPlace(drag.instanceId)

(***************************************************************************)
(* C30: a committed drag applies the drop target computed by the most      *)
(* recent updateDrag, not an earlier one: a palette drag adds one block of *)
(* the dragged definition at (target.columnIndex, target.orderIndex), a    *)
(* canvas drag moves the dragged instance with moveBlock(instanceId,       *)
(* target.columnIndex, target.orderIndex), and in both cases all other     *)
(* blocks keep their relative order.                                       *)
(***************************************************************************)
C30_CommitsLatestTarget ==
  [][UpdateSetsTarget /\ OnlyUpdateSetsTarget /\ CommitAppliesTarget]_vars

(***************************************************************************)
(* Helpers of the property of the indicator position.                      *)
(***************************************************************************)
\* the y coordinate below block i of the column
BlockBottom(i, blocks) ==
  calculateBlockY(i, blocks) + getBlockHeight(blocks[i + 1])

(***************************************************************************)
(* C31: the indicatorY returned by getDropTarget is calculateBlockY(i) -   *)
(* blockGapPx / 2 when the target inserts before block i of the column,    *)
(* and calculateBlockY(length) when the target appends at the end of the   *)
(* column.  Before a block that has a block above it, that is the middle   *)
(* of the gap between the two.                                             *)
(***************************************************************************)
C31_IndicatorY ==
  (Probed /\ ProbeTarget # Null) =>
    LET blocks == columns[ProbeTarget[1].columnIndex]
        i == ProbeTarget[1].orderIndex
        indicatorY == ProbeTarget[1].indicatorY
    IN  /\ i < Len(blocks) =>
             2 * indicatorY = 2 * calculateBlockY(i, blocks) - config.blockGapPx
        /\ (0 < i /\ i < Len(blocks)) =>
             2 * indicatorY
               = BlockBottom(i - 1, blocks) + calculateBlockY(i, blocks)
        /\ i = Len(blocks) => indicatorY = calculateBlockY(Len(blocks), blocks)

\* the cursor above the midpoint of the second of two blocks: the indicator
\* is in the gap between them
C31_Witness ==
  /\ Probed /\ ProbeTarget # Null
  /\ Len(columns[ProbeTarget[1].columnIndex]) = 2
  /\ ProbeTarget[1].orderIndex = 1
  /\ BlockBottom(0, columns[ProbeTarget[1].columnIndex])
       < ProbeTarget[1].indicatorY
  /\ ProbeTarget[1].indicatorY
       < calculateBlockY(1, columns[ProbeTarget[1].columnIndex])

(***************************************************************************)
(* C32: addBlock called with an order index outside [0, column length]     *)
(* either fails without changing the workspace or places the block at a    *)
(* clamped position; in both cases the orderIndex of the new block equals  *)
(* its array index and the orderIndex invariant of the column still holds. *)
(* Stated of every addBlock call on a workspace whose blocks carry their   *)
(* indices: a call in range satisfies it as well.                          *)
(***************************************************************************)
C32_OutOfRangeInsert ==
  [][(last'.op = "addBlock" /\ WellIndexed(columns)) =>
       /\ WellIndexed(columns')
       /\ IF last'.ok
            THEN /\ HasBlock(columns', last'.newId)
                 /\ ~HasBlock(columns, last'.newId)
            ELSE UNCHANGED <<columns, blockElements>>]_vars

(***************************************************************************)
(* Helpers of the property of the drop onto the own slot.                  *)
(***************************************************************************)
\* a canvas drag whose block is in the workspace
DraggedInModel ==
  /\ isDragging
  /\ currentDrag[1].source = "canvas"
  /\ HasBlock(columns, currentDrag[1].instanceId)

DraggedColumn == ColumnOf(columns, currentDrag[1].instanceId)

DraggedIndex == FindIndex(columns[DraggedColumn], currentDrag[1].instanceId)

\* the target is the slot of the dragged block: its column, and its own
\* index or the index after it
OwnSlot(target) ==
  /\ target.columnIndex = DraggedColumn
  /\ target.orderIndex \in {DraggedIndex, DraggedIndex + 1}

\* the cursor is over the dragged block
OverDragged(mouseX, mouseY) ==
  /\ InColumn(mouseX, DraggedColumn)
  /\ calculateBlockY(DraggedIndex, columns[DraggedColumn]) <= mouseY
  /\ mouseY <= BlockBottom(DraggedIndex, columns[DraggedColumn])

\* an updateDrag with the cursor over the dragged block yields its own slot
CursorOverYieldsOwnSlot ==
  (dcall'.op = "updateDrag" /\ DraggedInModel
     /\ OverDragged(currentDrag'[1].mouseX, currentDrag'[1].mouseY)) =>
    /\ currentDrag'[1].currentDropTarget # Null
    /\ OwnSlot(currentDrag'[1].currentDropTarget[1])

\* a commit onto the own slot is a moveBlock that returns and keeps the
\* order of every column
OwnSlotKeepsOrder ==
  (dcall'.op = "endDrag" /\ DraggedInModel /\ HasTarget
     /\ OwnSlot(currentDrag[1].currentDropTarget[1])) =>
    /\ last'.op = "moveBlock"
    /\ last'.ok
    /\ \A c \in Cols : IdsOf(columns'[c]) = IdsOf(columns[c])

(***************************************************************************)
(* C33: a canvas drag committed onto the dragged block's own slot - the    *)
(* target column is its column and the target index is its own index or    *)
(* its index + 1, which is what getDropTarget yields for a cursor over the *)
(* block itself, the dragged block staying in the model during the drag -  *)
(* leaves the block order of every column unchanged.                       *)
(***************************************************************************)
C33_OwnSlotIsNoOp == [][CursorOverYieldsOwnSlot /\ OwnSlotKeepsOrder]_vars

\* the first of two blocks of a column was dropped on the index after its
\* own, and the two stand as before
C33_Witness ==
  /\ DragDid("endDrag")
  /\ last.op = "moveBlock"
  /\ last.ok
  /\ \E c \in Cols :
       /\ Len(columns[c]) = 2
       /\ columns[c][1].id = last.id
       /\ last.col = c
       /\ last.ord = 1

\* the cursor stood over the dragged block at the last updateDrag
C33_CursorOver ==
  /\ DragDid("updateDrag")
  /\ DraggedInModel
  /\ OverDragged(currentDrag[1].mouseX, currentDrag[1].mouseY)

(***************************************************************************)
(* C34: whenever the drag coordinator is idle, no block element registered *)
(* with it is left with opacity '0': every way a canvas drag ends -        *)
(* endDrag with a drop target, endDrag without one, cancelDrag - and every *)
(* start of a drag that supersedes an active canvas drag leaves the        *)
(* originally dragged block visible again.                                 *)
(***************************************************************************)
C34_IdleShowsBlocks ==
  ~isDragging =>
    \A id \in DOMAIN dragBlockElements : dragBlockElements[id] # "0"

(***************************************************************************)
(* Helpers of the property of the commit after an interleaved mutation.    *)
(***************************************************************************)
\* a store mutation was the last call, after the updateDrag that set the
\* drop target of the drag in progress
MutatedSinceUpdate ==
  /\ HasTarget
  /\ dcall.op = "none"
  /\ last.op \in {"addBlock", "removeBlock", "copyBlock"}
  /\ last.ok

\* the index of the target is an insertion index of its column
TargetInRange(cols, target) ==
  /\ 0 <= target.orderIndex
  /\ target.orderIndex <= Len(cols[target.columnIndex])

(***************************************************************************)
(* C35: for every interleaving in which another store mutation             *)
(* (removeBlock, copyBlock or addBlock) happens between the last           *)
(* updateDrag and endDrag, the commit still leaves the workspace           *)
(* consistent: the index it inserts or moves to is within [0, length] of   *)
(* the target column at commit time, and blocks[i].orderIndex = i holds in *)
(* every column afterwards.                                                *)
(***************************************************************************)
C35_CommitAfterMutation ==
  [][(dcall'.op = "endDrag" /\ MutatedSinceUpdate /\ WellIndexed(columns)) =>
       /\ TargetInRange(columns, currentDrag[1].currentDropTarget[1])
       /\ WellIndexed(columns')]_vars

(***************************************************************************)
(* C36: moveBlock is atomic on failure: whenever it throws - unknown       *)
(* instance id, or a toColumn that is not an index of an existing column - *)
(* the block is still in its original column at its original index with    *)
(* unchanged columnIndex and orderIndex, every column's list is unchanged, *)
(* the view-handle table is unchanged and no notification is emitted.      *)
(***************************************************************************)
C36_MoveBlockAtomic ==
  [][(last'.op = "moveBlock" /\ ~last'.ok) =>
       /\ UNCHANGED <<columns, blockElements>>
       /\ last'.emits = 0]_vars

(***************************************************************************)
(* C37: at the moment the 'workspace:changed' notification caused by       *)
(* copyBlock is delivered to observers, the state they read is the final   *)
(* state of the operation: the copy's parameterValues already equal the    *)
(* source's values, so an observer that serializes the workspace on        *)
(* notification persists the copied values and not the definition's        *)
(* defaults.                                                               *)
(***************************************************************************)
C37_CopyNotifiesFinalState ==
  (last.op = "copyBlock" /\ last.ok) =>
    /\ last.emits = 1
    /\ ~last.early

(***************************************************************************)
(* Helpers of the property of the emission with callbacks that use the bus *)
(***************************************************************************)
\* the callbacks registered for the event, in the order of the Set
ListenersAt(ls, event) == IF ls[event] = Null THEN << >> ELSE ls[event][1]

\* the callbacks of the calls of the record that were made at depth d
CalledAt(call, d) ==
  LET picked == SelectSeq([k \in 1 .. Len(call.invoked) |->
                             <<call.invoked[k][1], call.depth[k]>>],
                          LAMBDA entry : entry[2] = d)
  IN  [k \in 1 .. Len(picked) |-> picked[k][1]]

\* the outer emission calls the listeners registered when it started, each
\* once and in their order, with its own arguments
OuterCallsSnapshot ==
  ecall'.op = "emit" =>
    /\ CalledAt(ecall', 0) = ListenersAt(listeners, ecall'.event)
    /\ \A k \in 1 .. Len(ecall'.invoked) :
         ecall'.depth[k] = 0 => ecall'.invoked[k][2] = ecall'.arg

\* what the callbacks did to the bus is in place when emit returns
CallbackEffectsStay ==
  ecall'.op = "emit" =>
    /\ (\E k \in 1 .. Len(ecall'.invoked) : ecall'.invoked[k][1] = "adder")
         => "late" \in Registered(listeners', "eventA")
    /\ (\E k \in 1 .. Len(ecall'.invoked) : ecall'.invoked[k][1] = "remover")
         => "victim" \notin Registered(listeners', "eventA")

\* the emission started by nested calls every listener of eventB, directly
\* after the call of nested and before the next call of the outer emission
NestedRunsToCompletion ==
  ecall'.op = "emit" =>
    \A k \in 1 .. Len(ecall'.invoked) :
      (ecall'.invoked[k][1] = "nested" /\ ecall'.depth[k] = 0) =>
        LET inner == ListenersAt(listeners, "eventB")
        IN  /\ k + Len(inner) <= Len(ecall'.invoked)
            /\ \A j \in 1 .. Len(inner) :
                 /\ ecall'.invoked[k + j] = <<inner[j], InnerArgs>>
                 /\ ecall'.depth[k + j] = 1
            /\ CalledAt(ecall', 1) = inner

(***************************************************************************)
(* C38: EventBus.emit delivers to the set of listeners registered at the   *)
(* moment emit starts: a listener added by a callback during an emission   *)
(* is not invoked in that emission (only in later ones), a listener        *)
(* removed by an earlier callback during an emission is still invoked in   *)
(* that emission, and a re-entrant emit from inside a callback runs to     *)
(* completion before the outer emission continues.                         *)
(***************************************************************************)
C38_EmitOverSnapshot ==
  [][OuterCallsSnapshot /\ CallbackEffectsStay /\ NestedRunsToCompletion]_vars

\* an emission of eventA in which remover ran before victim and victim was
\* still called, nested ran the listeners of eventB, adder among them,
\* before the outer emission went on, and late was registered but not called
C38_Witness ==
  /\ ecall.op = "emit"
  /\ ecall.event = "eventA"
  /\ CalledAt(ecall, 0) = <<"remover", "nested", "victim">>
  /\ CalledAt(ecall, 1) = <<"adder">>
  /\ ecall.depth = <<0, 0, 1, 0>>
  /\ "late" \in Registered(listeners, "eventA")
  /\ "victim" \notin Registered(listeners, "eventA")

(***************************************************************************)
(* Helpers of the property of the deserialized workspace.                  *)
(***************************************************************************)
\* the number of blocks of the workspace
RECURSIVE BlockCount(_, _)
BlockCount(cols, indices) ==
  IF indices = {} THEN 0
  ELSE LET c == CHOOSE x \in indices : TRUE
       IN  Len(cols[c]) + BlockCount(cols, indices \ {c})

\* the ids of the blocks of the workspace, over the columns it has
IdsIn(cols) ==
  UNION { { cols[c][i].id : i \in 1 .. Len(cols[c]) } : c \in DOMAIN cols }

(***************************************************************************)
(* C39: every workspace returned by a successful deserialize satisfies the *)
(* data-model invariants of the workspace: it has exactly                  *)
(* config.columnCount columns with index equal to array position, and all  *)
(* block ids in it are pairwise distinct.                                  *)
(***************************************************************************)
C39_DeserializedWellFormed ==
  (hcall.op = "deserialize" /\ hcall.ok) =>
    LET workspace == hcall.delivered[1]
    IN  /\ DOMAIN workspace.columns = 0 .. (workspace.config.columnCount - 1)
        /\ Cardinality(IdsIn(workspace.columns))
             = BlockCount(workspace.columns, DOMAIN workspace.columns)

====
